---- MODULE Spec2Model ----
(***************************************************************************)
(* envado: the schema pipeline of validateEnv / createEnvSchema.           *)
(*                                                                         *)
(* A schema map is a sequence of (key, SchemaDefinition) in declaration    *)
(* order; parse() maps validateValue over it against an environment and    *)
(* either returns the typed object or throws.  Strings are sequences of    *)
(* one-character strings, so that Number(), typeof and the error messages  *)
(* are computed and not assumed.  Error messages are token sequences.      *)
(***************************************************************************)
EXTENDS Integers, Sequences, FiniteSets, TLC

VARIABLES
    schema,    \* the schema map returned by schemaFn: Seq of [key, def]
    env,       \* the raw source handed to parse: key -> raw value
    pc,        \* "idle" | "mapping" | "done"
    idx,       \* position of Object.entries(schema).map
    results,   \* the FieldResults map() has produced so far
    calls,     \* every transformer / validator invocation of this run, in order
    outcome,   \* what parse did: pending, returned an object, or threw
    options,   \* validateEnv's options: envVars in insertion order, and prefix
    mode,      \* the value of `isBrowser && import.meta?.env?.MODE`
    validated, \* what validateEnv did: pending, returned an object, or threw
    objects,   \* the objects the builder calls of schemaFn have created so far
    lists,     \* the validator / transformer arrays those objects refer to
    lastCall,  \* the latest builder call: target, method, result or TypeError
    revision,  \* which revision of the config-object API (envGuard) is running
    runs       \* the earlier parse runs on this schema: Seq of [env, outcome]

validateEnvVars == <<options, mode, validated>>

builderVars == <<objects, lists, lastCall>>

guardVars == <<revision>>

runVars == <<runs>>

vars == <<schema, env, pc, idx, results, calls, outcome, validateEnvVars, builderVars,
          guardVars, runVars>>

-----------------------------------------------------------------------------
(* Bounds *)

MaxFields == 3      \* fields in a schema map
MaxChain == 2       \* createSchemaBuilder calls chained on one definition
MaxRawLen == 3      \* length of a generated raw string

-----------------------------------------------------------------------------
(* JavaScript values *)

Undefined ==
    [t |-> "undefined", s |-> <<>>, nan |-> FALSE, n |-> 0, d |-> 1, items |-> <<>>]
Str(cs) ==
    [t |-> "string", s |-> cs, nan |-> FALSE, n |-> 0, d |-> 1, items |-> <<>>]
Bool(b) ==
    [t |-> "boolean", s |-> <<>>, nan |-> FALSE, n |-> IF b THEN 1 ELSE 0, d |-> 1,
     items |-> <<>>]
NaN ==
    [t |-> "number", s |-> <<>>, nan |-> TRUE, n |-> 0, d |-> 1, items |-> <<>>]

\* an array of strings
Arr(items) ==
    [t |-> "array", s |-> <<>>, nan |-> FALSE, n |-> 0, d |-> 1, items |-> items]

Null ==
    [t |-> "null", s |-> <<>>, nan |-> FALSE, n |-> 0, d |-> 1, items |-> <<>>]

\* a plain object: its own keys, in insertion order
Obj(keys) ==
    [t |-> "object", s |-> <<>>, nan |-> FALSE, n |-> 0, d |-> 1, items |-> keys]

\* A finite number is the decimal fraction n / d, d a power of ten, in lowest
\* decimal form (no trailing zero in the fraction), so equal numbers are equal
\* records.
RECURSIVE Reduce10(_, _)
Reduce10(n, d) ==
    IF d > 1 /\ n % 10 = 0 THEN Reduce10(n \div 10, d \div 10) ELSE <<n, d>>

Num(n, d) ==
    LET Of(r) == [t |-> "number", s |-> <<>>, nan |-> FALSE, n |-> r[1], d |-> r[2],
                  items |-> <<>>]
    IN Of(Reduce10(n, d))

Int2Num(i) == Num(i, 1)

\* typeof: an array is an "object"
TypeOf(v) == IF v.t \in {"array", "null"} THEN "object" ELSE v.t

\* Array.isArray
IsArray(v) == v.t = "array"

\* a < b on numbers; any comparison with NaN is false
NumLt(a, b) == ~a.nan /\ ~b.nan /\ a.n * b.d < b.n * a.d

IsInteger(v) == v.t = "number" /\ ~v.nan /\ v.d = 1

-----------------------------------------------------------------------------
(* Strings *)

Digits == <<"0", "1", "2", "3", "4", "5", "6", "7", "8", "9">>
HexLetters == <<"a", "b", "c", "d", "e", "f">>
HexUpper == <<"A", "B", "C", "D", "E", "F">>

IsSpace(c) == c \in {" ", "\t", "\n"}

DigitVal(c) == (CHOOSE i \in 1..10 : Digits[i] = c) - 1
IsDigit(c) == \E i \in 1..10 : Digits[i] = c

IsHexDigit(c) ==
    IsDigit(c) \/ (\E i \in 1..6 : HexLetters[i] = c \/ HexUpper[i] = c)
HexVal(c) ==
    IF IsDigit(c) THEN DigitVal(c)
    ELSE 9 + (CHOOSE i \in 1..6 : HexLetters[i] = c \/ HexUpper[i] = c)

RECURSIVE TrimStart(_)
TrimStart(cs) ==
    IF cs # <<>> /\ IsSpace(Head(cs)) THEN TrimStart(Tail(cs)) ELSE cs

RECURSIVE TrimEnd(_)
TrimEnd(cs) ==
    IF cs # <<>> /\ IsSpace(cs[Len(cs)])
    THEN TrimEnd(SubSeq(cs, 1, Len(cs) - 1))
    ELSE cs

\* String.prototype.trim
Trim(cs) == TrimEnd(TrimStart(cs))

RECURSIVE Pow10(_)
Pow10(k) == IF k = 0 THEN 1 ELSE 10 * Pow10(k - 1)

\* the value of a digit string in the given radix (digits already checked)
RECURSIVE RadixVal(_, _, _)
RadixVal(cs, radix, acc) ==
    IF cs = <<>> THEN acc
    ELSE RadixVal(Tail(cs), radix, acc * radix + HexVal(Head(cs)))

AllDigits(cs) == \A i \in 1..Len(cs) : IsDigit(cs[i])

\* StrUnsignedDecimalLiteral without exponent: digits [. digits] | . digits
DecimalLiteral(cs) ==
    LET dots == {i \in 1..Len(cs) : cs[i] = "."}
    IN IF dots = {} THEN
            IF cs # <<>> /\ AllDigits(cs) THEN Num(RadixVal(cs, 10, 0), 1) ELSE NaN
       ELSE LET p == CHOOSE i \in dots : \A j \in dots : i <= j
                ip == SubSeq(cs, 1, p - 1)
                fp == SubSeq(cs, p + 1, Len(cs))
            IN IF AllDigits(ip) /\ AllDigits(fp) /\ Len(ip) + Len(fp) > 0
               THEN Num(RadixVal(ip, 10, 0) * Pow10(Len(fp)) + RadixVal(fp, 10, 0),
                        Pow10(Len(fp)))
               ELSE NaN

\* 0x / 0o / 0b integer literals (never signed)
RadixLiteral(cs) ==
    LET body == SubSeq(cs, 3, Len(cs))
        radix == IF cs[2] \in {"x", "X"} THEN 16
                 ELSE IF cs[2] \in {"o", "O"} THEN 8 ELSE 2
    IN IF body # <<>> /\ \A i \in 1..Len(body) :
                            IsHexDigit(body[i]) /\ HexVal(body[i]) < radix
       THEN Num(RadixVal(body, radix, 0), 1)
       ELSE NaN

\* Number(string): the StringToNumber conversion on strings without an
\* exponent part and without the Infinity literal (RawAlphabet has neither).
Negate(m) == IF m.nan THEN NaN ELSE Num(0 - m.n, m.d)

StringToNumber(cs) ==
    LET Literal(t) ==
            IF t = <<>> THEN Num(0, 1)
            ELSE IF Len(t) >= 2 /\ t[1] = "0"
                    /\ t[2] \in {"x", "X", "o", "O", "b", "B"}
            THEN RadixLiteral(t)
            ELSE IF t[1] = "-" THEN Negate(DecimalLiteral(Tail(t)))
            ELSE IF t[1] = "+" THEN DecimalLiteral(Tail(t))
            ELSE DecimalLiteral(t)
    IN Literal(Trim(cs))

\* Number(value) for the value kinds the pipeline meets
ToNumber(v) ==
    IF v.t = "number" THEN v
    ELSE IF v.t = "string" THEN StringToNumber(v.s)
    ELSE IF v.t = "boolean" THEN Num(v.n, 1)
    ELSE NaN

LowerLetters == <<"a", "b", "c", "d", "e", "f", "g", "h", "i", "j", "k", "l", "m",
                  "n", "o", "p", "q", "r", "s", "t", "u", "v", "w", "x", "y", "z">>
UpperLetters == <<"A", "B", "C", "D", "E", "F", "G", "H", "I", "J", "K", "L", "M",
                  "N", "O", "P", "Q", "R", "S", "T", "U", "V", "W", "X", "Y", "Z">>

\* String.prototype.toLowerCase
ToLowerCase(cs) ==
    [i \in 1..Len(cs) |->
        IF \E j \in 1..26 : UpperLetters[j] = cs[i]
        THEN LowerLetters[CHOOSE j \in 1..26 : UpperLetters[j] = cs[i]]
        ELSE cs[i]]

\* the digits of a natural number, one token per digit
RECURSIVE NatDigits(_)
NatDigits(k) ==
    IF k < 10 THEN <<Digits[k + 1]>>
    ELSE Append(NatDigits(k \div 10), Digits[(k % 10) + 1])

\* k written with exactly w digits (leading zeros kept), for a fraction part
RECURSIVE FixedDigits(_, _)
FixedDigits(k, w) ==
    IF w = 0 THEN <<>>
    ELSE Append(FixedDigits(k \div 10, w - 1), Digits[(k % 10) + 1])

RECURSIVE Log10(_)
Log10(d) == IF d <= 1 THEN 0 ELSE 1 + Log10(d \div 10)

\* String(number), as `${min}` in a template literal writes it
NumberToString(v) ==
    IF v.nan THEN <<"N", "a", "N">>
    ELSE LET a == IF v.n < 0 THEN 0 - v.n ELSE v.n
             sign == IF v.n < 0 THEN <<"-">> ELSE <<>>
         IN IF v.d = 1 THEN sign \o NatDigits(a)
            ELSE sign \o NatDigits(a \div v.d) \o <<".">>
                      \o FixedDigits(a % v.d, Log10(v.d))

\* Array.prototype.join on messages: the parts with sep between them
RECURSIVE Join(_, _)
Join(parts, sep) ==
    IF parts = <<>> THEN <<>>
    ELSE IF Len(parts) = 1 THEN parts[1]
    ELSE parts[1] \o sep \o Join(Tail(parts), sep)

\* String(value) / `${value}`
ToStringJS(v) ==
    IF v.t = "string" THEN v.s
    ELSE IF v.t = "number" THEN NumberToString(v)
    ELSE IF v.t = "boolean" THEN (IF v.n = 1 THEN <<"t", "r", "u", "e">>
                                  ELSE <<"f", "a", "l", "s", "e">>)
    ELSE IF v.t = "array" THEN Join(v.items, <<",">>)
    ELSE IF v.t = "object"
    THEN <<"[", "o", "b", "j", "e", "c", "t", " ", "O", "b", "j", "e", "c", "t", "]">>
    ELSE IF v.t = "null" THEN <<"n", "u", "l", "l">>
    ELSE <<"u", "n", "d", "e", "f", "i", "n", "e", "d">>

\* String.prototype.split on a separator string
RECURSIVE SplitAt(_, _, _)
SplitAt(cs, sep, cur) ==
    IF cs = <<>> THEN <<cur>>
    ELSE IF Len(cs) >= Len(sep) /\ SubSeq(cs, 1, Len(sep)) = sep
    THEN <<cur>> \o SplitAt(SubSeq(cs, Len(sep) + 1, Len(cs)), sep, <<>>)
    ELSE SplitAt(Tail(cs), sep, Append(cur, Head(cs)))

Split(cs, sep) ==
    IF sep = <<>> THEN [i \in 1..Len(cs) |-> <<cs[i]>>]
    ELSE SplitAt(cs, sep, <<>>)

\* TrimEach leaving every item as split produced it
TrimEach_untrimmed(items) == items

\* items.map((item) => item.trim())
TrimEach(items) == [i \in 1..Len(items) |-> Trim(items[i])]

\* whether the token sequence part occurs contiguously in msg
Contains(msg, part) ==
    \E i \in 0..(Len(msg) - Len(part)) : SubSeq(msg, i + 1, i + Len(part)) = part

-----------------------------------------------------------------------------
(* Errors (errors.ts) *)

Err(name, message) == [name |-> name, message |-> message]
NoError == Err("", <<>>)

MissingEnvVariableError(variableName) ==
    Err("MissingEnvVariableError",
        <<"Missing required environment variable: ", variableName>>)

InvalidEnvVariableError(variableName, message) ==
    Err("InvalidEnvVariableError",
        <<"Invalid environment variable \"", variableName, "\": ">> \o message)

TransformationError(variableName, message) ==
    Err("TransformationError",
        <<"Transformation failed for environment variable \"", variableName, "\": ">>
            \o message)

ValidationError(variableName, message) ==
    Err("ValidationError",
        <<"Validation failed for environment variable \"", variableName, "\": ">>
            \o message)

SchemaError(message) == Err("SchemaError", <<"Schema error: ">> \o message)

IsCustomError(e) ==
    e.name \in {"MissingEnvVariableError", "TransformationError", "ValidationError"}

-----------------------------------------------------------------------------
(* Validators and transformers.  A function value is a record [kind, arg];  *)
(* ApplyValidator / ApplyTransformer run it.                                *)

Fn(kind, arg) == [kind |-> kind, arg |-> arg]

\* what a call did: returned a value / message, or threw
Returned(v) == [threw |-> FALSE, val |-> v, error |-> NoError]
Threw(e) == [threw |-> TRUE, val |-> Undefined, error |-> e]

\* a validator's result: undefined, or a message (possibly the empty string)
NoMessage == [isMsg |-> FALSE, msg |-> <<>>]
Message(m) == [isMsg |-> TRUE, msg |-> m]
VReturned(r) == [threw |-> FALSE, res |-> r, error |-> NoError]
VThrew(e) == [threw |-> TRUE, res |-> NoMessage, error |-> e]

\* `if (result)`: undefined and "" are falsy
Truthy(r) == r.isMsg /\ r.msg # <<>>

\* boolean(): booleanTransformer
booleanTransformer(value) ==
    IF value.t = "boolean" THEN Returned(value)
    ELSE IF value.t # "string"
    THEN Threw(Err("TypeError", <<"value.toLowerCase is not a function">>))
    ELSE LET Decide(normalized) ==
                IF normalized \in {<<"t", "r", "u", "e">>, <<"1">>, <<"y", "e", "s">>}
                THEN Returned(Bool(TRUE))
                ELSE IF normalized \in {<<"f", "a", "l", "s", "e">>, <<"0">>, <<"n", "o">>}
                THEN Returned(Bool(FALSE))
                ELSE Threw(InvalidEnvVariableError("",
                            <<"Invalid boolean value: ">> \o value.s))
         IN Decide(Trim(ToLowerCase(value.s)))

\* v + 1 and v * 2 on a number, as a user's .transform() callback computes them
AddOne(v) == IF v.nan THEN NaN ELSE Num(v.n + v.d, v.d)
Double(v) == IF v.nan THEN NaN ELSE Num(2 * v.n, v.d)

\* number(): the base transformer
numberTransformer(value) ==
    Returned(IF value.t = "string" THEN StringToNumber(value.s) ELSE value)

\* a user's .transform() callbacks: v => v + 1, v => v * 2, and one that throws
customTransformer(f, value) ==
    CASE f.kind = "addOne" -> Returned(AddOne(ToNumber(value)))
      [] f.kind = "double" -> Returned(Double(ToNumber(value)))
      [] f.kind = "throws" -> Threw(Err("Error", <<"boom">>))

\* array(): the base transformer; f.arg is the factory's separator
arrayTransformer(f, value) ==
    IF IsArray(value) THEN Returned(value)
    ELSE IF value.t = "string" THEN Returned(Arr(TrimEach(Split(value.s, f.arg.s))))
    ELSE Returned(value)

\* array().commaSeparated(): the appended transformer
commaSeparatedTransformer(f, value) ==
    IF value.t = "string" THEN Returned(Arr(TrimEach(Split(value.s, f.arg.s))))
    ELSE Returned(value)

\* array().withSeparator(customSeparator): the only transformer of the result
withSeparatorTransformer(f, value) ==
    CASE value.t = "string" -> Returned(Arr(TrimEach(Split(value.s, f.arg.s))))
      [] IsArray(value) -> Returned(value)

\* string().email(): the appended transformer, (value) => value.trim()
trimTransformer(value) ==
    IF value.t = "string" THEN Returned(Str(Trim(value.s)))
    ELSE Threw(Err("TypeError", <<"value.trim is not a function">>))

ApplyTransformer(f, value) ==
    CASE f.kind = "numberBase" -> numberTransformer(value)
      [] f.kind = "trim" -> trimTransformer(value)
      [] f.kind = "booleanBase" -> booleanTransformer(value)
      [] f.kind = "arrayBase" -> arrayTransformer(f, value)
      [] f.kind = "commaSeparated" -> commaSeparatedTransformer(f, value)
      [] f.kind = "withSeparator" -> withSeparatorTransformer(f, value)
      [] OTHER -> customTransformer(f, value)

\* string(): the base validator
stringBaseValidator(value) ==
    IF value.t = "string" THEN VReturned(NoMessage)
    ELSE IF value.t = "undefined"
    THEN VReturned(Message(<<"Expected string, but got ", TypeOf(value)>>))
    ELSE VThrew(Err("TypeError", <<"value?.trim is not a function">>))

\* string().min(length)
stringMinValidator(length, value) ==
    IF value.t = "string" /\ NumLt(Int2Num(Len(value.s)), length)
    THEN VReturned(Message(<<"String must be at least ">>
            \o NumberToString(length) \o <<" characters long">>))
    ELSE VReturned(NoMessage)

\* numberBaseValidator without the isNaN test
numberBaseValidator_typeOnly(value) ==
    LET Check(num) ==
            IF TypeOf(num) # "number"
            THEN VReturned(Message(<<"Expected number, but got ", TypeOf(value)>>))
            ELSE VReturned(NoMessage)
    IN Check(IF value.t = "string" THEN StringToNumber(value.s) ELSE value)

\* number(): the base validator
numberBaseValidator(value) ==
    LET Check(num) ==
            IF TypeOf(num) # "number" \/ num.nan
            THEN VReturned(Message(<<"Expected number, but got ", TypeOf(value)>>))
            ELSE VReturned(NoMessage)
    IN Check(IF value.t = "string" THEN StringToNumber(value.s) ELSE value)

\* number().min(min)
numberMinValidator(min, value) ==
    IF NumLt(ToNumber(value), min)
    THEN VReturned(Message(<<"Value must be greater than or equal to ">>
            \o NumberToString(min)))
    ELSE VReturned(NoMessage)

\* number().max(max)
numberMaxValidator(max, value) ==
    IF NumLt(max, ToNumber(value))
    THEN VReturned(Message(<<"Value must be less than or equal to ">>
            \o NumberToString(max)))
    ELSE VReturned(NoMessage)

PortMin == 1
PortMax == 65535

\* number().port()
portValidator(value) ==
    LET Check(num) ==
            IF NumLt(num, Int2Num(PortMin)) \/ NumLt(Int2Num(PortMax), num)
            THEN VReturned(Message(<<"Invalid port number">>))
            ELSE VReturned(NoMessage)
    IN Check(ToNumber(value))

\* boolean(): the base validator
booleanBaseValidator(value) ==
    IF booleanTransformer(value).threw
    THEN VReturned(Message(<<"Expected boolean, but got ">> \o ToStringJS(value)))
    ELSE VReturned(NoMessage)

\* a user's .custom() callbacks: one that rejects every value with its own
\* message, one that accepts every value, one that returns the empty string
customValidator(f, value) ==
    CASE f.kind = "reject" ->
            VReturned(Message(<<"rejected by custom validator ">> \o NumberToString(f.arg)))
      [] f.kind = "accept" -> VReturned(NoMessage)
      [] f.kind = "empty" -> VReturned(Message(<<>>))
      [] f.kind = "vthrows" -> VThrew(Err("Error", <<"validator failed">>))

\* string().oneOf(values); f.arg is the array of values
oneOfValidator(f, value) ==
    IF \E k \in 1..Len(f.arg.items) : value = Str(f.arg.items[k])
    THEN VReturned(NoMessage)
    ELSE VReturned(Message(<<"Value must be one of: ">> \o Join(f.arg.items, <<", ">>)))

\* string().max(length)
stringMaxValidator(length, value) ==
    IF value.t = "string" /\ NumLt(length, Int2Num(Len(value.s)))
    THEN VReturned(Message(<<"String must not exceed ">>
            \o NumberToString(length) \o <<" characters">>))
    ELSE VReturned(NoMessage)

\* object(): the base validator
objectBaseValidator(value) ==
    IF TypeOf(value) # "object" \/ value = Null
    THEN VReturned(Message(<<"Expected object, got ", TypeOf(value)>>))
    ELSE VReturned(NoMessage)

\* the index keys "0" .. "n-1" of a string or an array
IndexKeys(n) == [k \in 1..n |-> NatDigits(k - 1)]

\* Object.keys(value), value neither null nor undefined
ObjectKeys(value) ==
    CASE value.t = "object" -> value.items
      [] value.t = "array" -> IndexKeys(Len(value.items))
      [] value.t = "string" -> IndexKeys(Len(value.s))
      [] OTHER -> <<>>

\* property names every plain object inherits from Object.prototype
PrototypeKeys ==
    {<<"constructor">>, <<"toString">>, <<"valueOf">>, <<"hasOwnProperty">>,
     <<"isPrototypeOf">>, <<"propertyIsEnumerable">>, <<"toLocaleString">>,
     <<"__proto__">>}

\* key in schema: an own key of the nested schema, or an inherited property
HasProperty(key, nested) ==
    (\E k \in 1..Len(nested) : nested[k] = key) \/ key \in PrototypeKeys

\* object(schema).strict(): validateKeys; f.arg holds the keys of schema
strictValidator(f, value) ==
    IF value \in {Null, Undefined}
    THEN VThrew(Err("TypeError", <<"Cannot convert undefined or null to object">>))
    ELSE LET Report(extraKeys) ==
                IF Len(extraKeys) > 0
                THEN VReturned(Message(<<"Unexpected keys: ">> \o Join(extraKeys, <<", ">>)))
                ELSE VReturned(NoMessage)
         IN Report(SelectSeq(ObjectKeys(value),
                             LAMBDA key : ~HasProperty(key, f.arg.items)))

\* array(): the base validator
arrayBaseValidator(value) ==
    IF IsArray(value) \/ value.t = "string" THEN VReturned(NoMessage)
    ELSE VReturned(Message(<<"Expected array or comma-separated string, but got ",
                             TypeOf(value)>>))

\* value.length of an array or a string
Length(value) == IF IsArray(value) THEN Len(value.items) ELSE Len(value.s)

\* array().min(min)
arrayMinValidator(min, value) ==
    IF NumLt(Int2Num(Length(value)), min)
    THEN VReturned(Message(<<"Array must contain at least ">>
            \o NumberToString(min) \o <<" items">>))
    ELSE VReturned(NoMessage)

\* array().max(max)
arrayMaxValidator(max, value) ==
    IF NumLt(max, Int2Num(Length(value)))
    THEN VReturned(Message(<<"Array must contain at most ">>
            \o NumberToString(max) \o <<" items">>))
    ELSE VReturned(NoMessage)

RECURSIVE ApplyValidator(_, _)

\* validateItems with the loops exchanged: every item under the first validator,
\* then every item under the second, ...
RECURSIVE validateItems_byValidator(_, _, _, _)
validateItems_byValidator(itemValidators, items, i, j) ==
    IF j > Len(itemValidators) \/ items = <<>> THEN VReturned(NoMessage)
    ELSE IF i > Len(items) THEN validateItems_byValidator(itemValidators, items, 1, j + 1)
    ELSE LET Step(r) ==
                IF r.threw \/ Truthy(r.res) THEN r
                ELSE validateItems_byValidator(itemValidators, items, i + 1, j)
         IN Step(ApplyValidator(itemValidators[j], Str(items[i])))

\* array().items(itemSchema): the first message any validator of itemSchema
\* reports on any item; itemValidators is itemSchema.validators
RECURSIVE validateItems(_, _, _, _)
validateItems(itemValidators, items, i, j) ==
    IF i > Len(items) THEN VReturned(NoMessage)
    ELSE IF j > Len(itemValidators) THEN validateItems(itemValidators, items, i + 1, 1)
    ELSE LET Step(r) ==
                IF r.threw \/ Truthy(r.res) THEN r
                ELSE validateItems(itemValidators, items, i, j + 1)
         IN Step(ApplyValidator(itemValidators[j], Str(items[i])))

\* the validators of the item schemas items() is called with: string(), number()
ItemValidators(f) ==
    CASE f.arg = Str(<<"number">>) -> <<Fn("numberBase", Undefined)>>
      [] f.arg = Str(<<"number().min(1)">>) ->
            <<Fn("numberBase", Undefined), Fn("numberMin", Int2Num(1))>>
      [] f.arg = Str(<<"number().max(8).custom(throws).schema">>) ->
            <<Fn("numberBase", Undefined), Fn("numberMax", Int2Num(8)),
              Fn("vthrows", Undefined)>>
      [] OTHER -> <<Fn("stringBase", Undefined)>>

ApplyValidator(f, value) ==
    CASE f.kind = "stringBase" -> stringBaseValidator(value)
      [] f.kind = "oneOf" -> oneOfValidator(f, value)
      [] f.kind = "stringMax" -> stringMaxValidator(f.arg, value)
      [] f.kind = "objectBase" -> objectBaseValidator(value)
      [] f.kind = "strict" -> strictValidator(f, value)
      [] f.kind = "arrayBase" -> arrayBaseValidator(value)
      [] f.kind = "arrayMin" -> arrayMinValidator(f.arg, value)
      [] f.kind = "arrayMax" -> arrayMaxValidator(f.arg, value)
      [] f.kind = "items" -> validateItems(ItemValidators(f), value.items, 1, 1)
      [] f.kind = "stringMin" -> stringMinValidator(f.arg, value)
      [] f.kind = "numberBase" -> numberBaseValidator(value)
      [] f.kind = "numberMin" -> numberMinValidator(f.arg, value)
      [] f.kind = "numberMax" -> numberMaxValidator(f.arg, value)
      [] f.kind = "port" -> portValidator(value)
      [] f.kind = "booleanBase" -> booleanBaseValidator(value)
      [] OTHER -> customValidator(f, value)

-----------------------------------------------------------------------------
(* SchemaDefinition and the factories *)

SchemaDefinition(type, validators, transformers, optional, default) ==
    [type |-> type, validators |-> validators, asyncValidators |-> <<>>,
     transformers |-> transformers, optional |-> optional, default |-> default,
     lacks |-> {}]

\* string(options): the initial schema
string(default) ==
    SchemaDefinition("string", <<Fn("stringBase", Undefined)>>, <<>>, FALSE, default)

\* string(options).min(length)
stringMin(default, length) ==
    [string(default) EXCEPT !.validators = Append(@, Fn("stringMin", length))]

\* string(options).oneOf(values)
stringOneOf(default, values) ==
    [string(default) EXCEPT !.validators = Append(@, Fn("oneOf", Arr(values)))]

\* string(options).url(); the validator, new URL(value), is not evaluated
stringUrl(default) ==
    [string(default) EXCEPT !.validators = Append(@, Fn("url", Undefined))]

\* string(options).max(length)
stringMax(default, length) ==
    [string(default) EXCEPT !.validators = Append(@, Fn("stringMax", length))]

\* string(options).email(): the schema held by the builder email() returns;
\* the validator, a regular expression test, is not evaluated
stringEmail(default) ==
    [string(default) EXCEPT !.validators = Append(@, Fn("email", Undefined)),
                            !.transformers = Append(@, Fn("trim", Undefined))]

\* number(options): the initial schema
number(default) ==
    SchemaDefinition("number", <<Fn("numberBase", Undefined)>>,
                     <<Fn("numberBase", Undefined)>>, FALSE, default)

\* number(options).min(min)
numberMin(default, min) ==
    [number(default) EXCEPT !.validators = Append(@, Fn("numberMin", min))]

\* number(options).max(max): the schema held by the builder max() returns
numberMax(default, max) ==
    [number(default) EXCEPT !.validators = Append(@, Fn("numberMax", max))]

\* number(options).port()
numberPort(default) ==
    [number(default) EXCEPT !.validators = Append(@, Fn("port", Undefined))]

\* boolean(options)
boolean(default) ==
    SchemaDefinition("boolean", <<Fn("booleanBase", Undefined)>>,
                     <<Fn("booleanBase", Undefined)>>, FALSE, default)

Pipe == <<"|">>
Comma == <<",">>

\* array(options): the initial schema; separator is options.separator ?? ","
array(default, separator) ==
    SchemaDefinition("array", <<Fn("arrayBase", Undefined)>>,
                     <<Fn("arrayBase", Str(separator))>>, FALSE, default)

\* array(options).items(itemSchema), itemSchema named by its type
arrayItems(default, separator, itemType) ==
    [array(default, separator) EXCEPT
        !.validators = Append(@, Fn("items", Str(<<itemType>>)))]

\* array(options).min(min)
arrayMin(default, separator, min) ==
    [array(default, separator) EXCEPT !.validators = Append(@, Fn("arrayMin", min))]

\* array(options).max(max)
arrayMax(default, separator, max) ==
    [array(default, separator) EXCEPT !.validators = Append(@, Fn("arrayMax", max))]

\* array(options).commaSeparated()
arrayCommaSeparated(default, separator) ==
    [array(default, separator) EXCEPT
        !.transformers = Append(@, Fn("commaSeparated", Str(separator)))]

\* array(options).withSeparator(customSeparator)
arrayWithSeparator(default, separator, customSeparator) ==
    [array(default, separator) EXCEPT
        !.transformers = <<Fn("withSeparator", Str(customSeparator))>>]

\* object(schema, options): the initial schema
object(default) ==
    SchemaDefinition("object", <<Fn("objectBase", Undefined)>>, <<>>, FALSE, default)

\* the keys of the nested schema the object fields are declared with:
\* builder.object({ a: builder.string() })
NestedKeys == <<<<"a">>>>

\* object(schema, options).strict()
objectStrict(default) ==
    [object(default) EXCEPT !.validators = Append(@, Fn("strict", Arr(NestedKeys)))]

\* createSchemaBuilder(schema).optional().schema
builderOptional(s) == [s EXCEPT !.optional = TRUE]

\* createSchemaBuilder(schema).custom(validator).schema
builderCustom(s, validator) == [s EXCEPT !.validators = Append(@, validator)]

\* createSchemaBuilder(schema).transform(transformer).schema
builderTransform(s, transformer) == [s EXCEPT !.transformers = Append(@, transformer)]

\* The object createSchemaBuilder(s) returns, placed in a schema map as it is:
\* { optional, custom, transform, schema }.  Its optional property is a function
\* (truthy); it has no type, validators, asyncValidators, transformers or
\* default property (lacks), for which the record holds placeholders.
BuilderEntry(s) ==
    [type |-> "", validators |-> <<>>, asyncValidators |-> <<>>,
     transformers |-> <<>>, optional |-> TRUE, default |-> Undefined,
     lacks |-> {"type", "validators", "asyncValidators", "transformers", "default"},
     schema |-> s]

-----------------------------------------------------------------------------
(* validateValue *)

Call(op, i, arg) == [op |-> op, i |-> i, arg |-> arg]

\* ReduceTransformers with every transformer fed the value the reduce started
\* from instead of its predecessor's output
RECURSIVE ReduceTransformers_unchained(_, _, _, _)
ReduceTransformers_unchained(transformers, i, val, done) ==
    IF i > Len(transformers)
    THEN [threw |-> FALSE, error |-> NoError, calls |-> done,
          val |-> IF transformers = <<>> THEN val
                  ELSE ApplyTransformer(transformers[Len(transformers)], val).val]
    ELSE LET Step(r, c) ==
                IF r.threw
                THEN [threw |-> TRUE, val |-> val, error |-> r.error, calls |-> c]
                ELSE ReduceTransformers_unchained(transformers, i + 1, val, c)
         IN Step(ApplyTransformer(transformers[i], val),
                 Append(done, Call("transformer", i, val)))

\* schema.transformers.reduce((val, transformer) => transformer(val), currentValue)
RECURSIVE ReduceTransformers(_, _, _, _)
ReduceTransformers(transformers, i, val, done) ==
    IF i > Len(transformers)
    THEN [threw |-> FALSE, val |-> val, error |-> NoError, calls |-> done]
    ELSE LET Step(r, c) ==
                IF r.threw
                THEN [threw |-> TRUE, val |-> val, error |-> r.error, calls |-> c]
                ELSE ReduceTransformers(transformers, i + 1, r.val, c)
         IN Step(ApplyTransformer(transformers[i], val),
                 Append(done, Call("transformer", i, val)))

\* ForEachValidator stopping at the first validator that reports a message
RECURSIVE ForEachValidator_firstOnly(_, _, _, _, _)
ForEachValidator_firstOnly(validators, i, currentValue, errors, done) ==
    IF i > Len(validators) \/ errors # <<>>
    THEN [threw |-> FALSE, errors |-> errors, error |-> NoError, calls |-> done]
    ELSE LET Step(r, c) ==
                IF r.threw
                THEN [threw |-> TRUE, errors |-> errors, error |-> r.error, calls |-> c]
                ELSE ForEachValidator_firstOnly(validators, i + 1, currentValue,
                        IF Truthy(r.res) THEN Append(errors, r.res.msg) ELSE errors, c)
         IN Step(ApplyValidator(validators[i], currentValue),
                 Append(done, Call("validator", i, currentValue)))

\* schema.validators.forEach(validator => { const result = validator(currentValue);
\*                                           if (result) errors.push(result); })
RECURSIVE ForEachValidator(_, _, _, _, _)
ForEachValidator(validators, i, currentValue, errors, done) ==
    IF i > Len(validators)
    THEN [threw |-> FALSE, errors |-> errors, error |-> NoError, calls |-> done]
    ELSE LET Step(r, c) ==
                IF r.threw
                THEN [threw |-> TRUE, errors |-> errors, error |-> r.error, calls |-> c]
                ELSE ForEachValidator(validators, i + 1, currentValue,
                        IF Truthy(r.res) THEN Append(errors, r.res.msg) ELSE errors, c)
         IN Step(ApplyValidator(validators[i], currentValue),
                 Append(done, Call("validator", i, currentValue)))

ValueReturn(value, errors, cs) ==
    [threw |-> FALSE, value |-> value, errors |-> errors, error |-> NoError, calls |-> cs]
ValueThrow(e, cs) ==
    [threw |-> TRUE, value |-> Undefined, errors |-> <<>>, error |-> e, calls |-> cs]

\* the default replaces an undefined raw value
\* WithDefault with the default taken for every falsy value (value || default)
WithDefault_falsy(def, value) ==
    IF (value = Undefined \/ value = Str(<<>>)) /\ def.default # Undefined
    THEN def.default
    ELSE value

WithDefault(def, value) ==
    IF value = Undefined /\ def.default # Undefined THEN def.default ELSE value

\* after the transformers: validators, then throw or return
ValidateTransformed(def, currentValue, variableName, done) ==
    LET Decide(v) ==
            IF v.threw THEN ValueThrow(v.error, v.calls)
            ELSE IF Len(v.errors) > 0
            THEN ValueThrow(ValidationError(variableName, Join(v.errors, <<", ">>)),
                            v.calls)
            ELSE ValueReturn(currentValue, v.errors, v.calls)
    IN Decide(ForEachValidator(def.validators, 1, currentValue, <<>>, done))

\* AbsentResult with the missing value reported as a message of the field
\* instead of thrown
AbsentResult_reported(def, variableName) ==
    IF def.optional
    THEN ValueReturn(Undefined, <<>>, <<>>)
    ELSE ValueReturn(Undefined, <<<<"Required value is missing">>>>, <<>>)

\* AbsentResult with the optional flag ignored
AbsentResult_required(def, variableName) ==
    ValueThrow(MissingEnvVariableError(variableName), <<>>)

\* currentValue === undefined: optional empty, or Missing
AbsentResult(def, variableName) ==
    IF def.optional
    THEN ValueReturn(Undefined, <<>>, <<>>)
    ELSE ValueThrow(MissingEnvVariableError(variableName), <<>>)

\* TransformFailure with the thrown error reported as a message of the field
\* instead of thrown
TransformFailure_reported(variableName, t) ==
    ValueReturn(t.val, <<<<"Transformation failed: ">> \o t.error.message>>, t.calls)

\* the catch clause around the transformers
TransformFailure(variableName, t) ==
    ValueThrow(TransformationError(variableName, t.error.message), t.calls)

\* schema.transformers.reduce where schema.transformers is undefined
ReduceOfUndefined(currentValue) ==
    [threw |-> TRUE, val |-> currentValue, calls |-> <<>>,
     error |-> Err("TypeError",
                   <<"Cannot read properties of undefined (reading 'reduce')">>)]

\* the try block and what follows it, on a defined currentValue
TransformAndValidate(def, currentValue, variableName) ==
    LET Continue(t) ==
            IF t.threw
            THEN TransformFailure(variableName, t)
            ELSE ValidateTransformed(def, t.val, variableName, t.calls)
    IN Continue(IF "transformers" \in def.lacks
                THEN ReduceOfUndefined(currentValue)
                ELSE ReduceTransformers(def.transformers, 1, currentValue, <<>>))

validateValue(def, value, variableName) ==
    LET Run(currentValue) ==
            IF currentValue = Undefined
            THEN AbsentResult(def, variableName)
            ELSE TransformAndValidate(def, currentValue, variableName)
    IN Run(WithDefault(def, value))

-----------------------------------------------------------------------------
(* createEnvSchema(schemaFn).parse(env) *)

FieldKeys == <<"PORT", "DEBUG", "NODE_ENV", "API_URL", "TIMEOUT">>

ViteKey(key) == "VITE_" \o key

\* const value = key in env ? env[key] : env[viteKey]
Lookup(e, key) ==
    IF key \in DOMAIN e THEN e[key]
    ELSE IF ViteKey(key) \in DOMAIN e THEN e[ViteKey(key)]
    ELSE Undefined

Pending == [kind |-> "pending", error |-> NoError, value |-> <<>>]
ParseReturned(obj) == [kind |-> "returned", error |-> NoError, value |-> obj]
ParseThrew(e) == [kind |-> "threw", error |-> e, value |-> <<>>]

\* the catch clause of the map callback
\* Rethrown with the wrapping error naming neither the field nor the cause
Rethrown_anonymous(key, e) ==
    IF IsCustomError(e) THEN e
    ELSE SchemaError(<<"Unexpected error while validating">>)

Rethrown(key, e) ==
    IF IsCustomError(e) THEN e
    ELSE SchemaError(<<"Unexpected error while validating ", key, ": ">> \o e.message)

\* results.filter(r => r.errors.length > 0)
\*        .map(({key, errors}) => errors.map(error => `${key}: ${error}`)).flat()
RECURSIVE FlatErrors(_)
FlatErrors(rs) ==
    IF rs = <<>> THEN <<>>
    ELSE LET Prefixed(r) == [i \in 1..Len(r.errors) |-> <<r.key, ": ">> \o r.errors[i]]
         IN Prefixed(Head(rs)) \o FlatErrors(Tail(rs))

\* ResultObject without the keys whose value is undefined
ResultObject_defined(rs) ==
    [k \in {rs[i].key : i \in {j \in 1..Len(rs) : rs[j].value # Undefined}} |->
        rs[CHOOSE i \in 1..Len(rs) : rs[i].key = k].value]

\* results.reduce((acc, {key, value}) => ({...acc, [key]: value}), {})
ResultObject(rs) ==
    [k \in {rs[i].key : i \in 1..Len(rs)} |->
        rs[CHOOSE i \in 1..Len(rs) :
            rs[i].key = k /\ \A j \in 1..Len(rs) : rs[j].key = k => j <= i].value]

\* parse(env) is entered: map() starts at the first entry
ParseStart ==
    /\ pc = "idle"
    /\ pc' = "mapping"
    /\ idx' = 1
    /\ results' = <<>>
    /\ calls' = <<>>
    /\ outcome' = Pending
    /\ UNCHANGED <<schema, env, validateEnvVars, builderVars, guardVars, runVars>>

\* the calls one validateValue made, each tagged with the key it ran for
Tagged(key, cs) ==
    [i \in 1..Len(cs) |-> [key |-> key, op |-> cs[i].op, i |-> cs[i].i, arg |-> cs[i].arg]]

\* one call of the map callback: validateValue on the next entry, inside try/catch
ResolveField ==
    /\ pc = "mapping"
    /\ idx <= Len(schema)
    /\ LET Settle(key, r) ==
            /\ calls' = calls \o Tagged(key, r.calls)
            /\ IF r.threw
               THEN /\ outcome' = ParseThrew(Rethrown(key, r.error))
                    /\ pc' = "done"
                    /\ UNCHANGED <<idx, results>>
               ELSE /\ results' = Append(results,
                          [key |-> key, value |-> r.value, errors |-> r.errors])
                    /\ idx' = idx + 1
                    /\ UNCHANGED <<pc, outcome>>
       IN Settle(schema[idx].key,
                 validateValue(schema[idx].def, Lookup(env, schema[idx].key),
                               schema[idx].key))
    /\ UNCHANGED <<schema, env, validateEnvVars, builderVars, guardVars, runVars>>

\* after map(): the aggregate error, or the object
ParseFinish ==
    /\ pc = "mapping"
    /\ idx > Len(schema)
    /\ LET Outcome(errors) ==
            IF Len(errors) > 0
            THEN ParseThrew(SchemaError(<<"Environment validation failed:\n">>
                                \o Join(errors, <<"\n">>)))
            ELSE ParseReturned(ResultObject(results))
       IN outcome' = Outcome(FlatErrors(results))
    /\ pc' = "done"
    /\ UNCHANGED <<schema, env, idx, results, calls, validateEnvVars, builderVars, guardVars, runVars>>

Next == ParseStart \/ ResolveField \/ ParseFinish

MaxRuns == 2        \* finished parse runs followed by another run on the schema

\* map() with the position of the previous call carried over
MapStart_resumed(position) == position

\* Object.entries(schema).map(...) visits the entries from the first one on
\* every call of parse
MapStart(position) == 1

\* the record of a finished run
Run(source, result) == [env |-> source, outcome |-> result]

\* parse(source) is called again on the same envSchema once a run has ended:
\* schema is the one captured by the closure, results and errors are new
ParseAgain(source) ==
    /\ pc = "done"
    /\ Len(runs) < MaxRuns
    /\ runs' = Append(runs, Run(env, outcome))
    /\ env' = source
    /\ pc' = "mapping"
    /\ idx' = MapStart(idx)
    /\ results' = <<>>
    /\ calls' = <<>>
    /\ outcome' = Pending
    /\ UNCHANGED <<schema, validateEnvVars, builderVars, guardVars>>

-----------------------------------------------------------------------------
(* validateEnv(schemaFn, options).  options.envVars is given as the entries  *)
(* of the object in insertion order; dotenv's loading of files into          *)
(* process.env is outside the model.                                         *)

\* truthiness, as `||` tests it
IsTruthy(v) ==
    CASE v.t = "undefined" -> FALSE
      [] v.t = "string" -> v.s # <<>>
      [] v.t = "boolean" -> v.n = 1
      [] v.t = "number" -> ~v.nan /\ v.n # 0
      [] OTHER -> TRUE

Development == Str(<<"d", "e", "v", "e", "l", "o", "p", "m", "e", "n", "t">>)
Production == Str(<<"p", "r", "o", "d", "u", "c", "t", "i", "o", "n">>)
Test == Str(<<"t", "e", "s", "t">>)
Staging == Str(<<"s", "t", "a", "g", "i", "n", "g">>)
Local == Str(<<"l", "o", "c", "a", "l">>)

\* obj[key] = value
Assign(obj, key, value) ==
    [k \in DOMAIN obj \cup {key} |-> IF k = key THEN value ELSE obj[k]]

EmptyObject == [k \in {} |-> Undefined]

\* the key names a prefixed key can be cut down to
KeyNames == {"NODE_ENV", "PORT", "DEBUG", ""}

\* key.startsWith(prefix)
StartsWith(key, prefix) == \E k \in KeyNames : key = prefix \o k

\* key.substring(prefix.length), for a key that starts with prefix
Unprefixed(key, prefix) == CHOOSE k \in KeyNames : key = prefix \o k

\* Object.entries(envVars).reduce((acc, [key, value]) => { ... }, {})
RECURSIVE ProcessedEnvVars(_, _, _)
ProcessedEnvVars(entries, prefix, acc) ==
    IF entries = <<>> THEN acc
    ELSE LET Step(e) ==
                Assign(IF StartsWith(e.key, prefix)
                       THEN Assign(acc, Unprefixed(e.key, prefix), e.value)
                       ELSE acc,
                       e.key, e.value)
         IN ProcessedEnvVars(Tail(entries), prefix, Step(Head(entries)))

\* the object whose entries are given
RECURSIVE FromEntries(_)
FromEntries(entries) ==
    IF entries = <<>> THEN EmptyObject
    ELSE Assign(FromEntries(SubSeq(entries, 1, Len(entries) - 1)),
                entries[Len(entries)].key, entries[Len(entries)].value)

\* parsedEnv.NODE_ENV || (isBrowser && import.meta?.env?.MODE) || "development"
NodeEnvOf(parsedEnv, browserMode) ==
    LET Pick(own) ==
            IF IsTruthy(own) THEN own
            ELSE IF IsTruthy(browserMode) THEN browserMode
            ELSE Development
    IN Pick(IF "NODE_ENV" \in DOMAIN parsedEnv THEN parsedEnv["NODE_ENV"] ELSE Undefined)

DerivedKeys ==
    {"isDev", "isDevelopment", "isProd", "isProduction", "isTest", "isStaging",
     "isLocal", "enviroment"}

addEnvDerivedProperties(parsedEnv, browserMode) ==
    LET Spread(NODE_ENV) ==
            [k \in DOMAIN parsedEnv \cup DerivedKeys |->
                CASE k = "isDev" -> Bool(NODE_ENV = Development)
                  [] k = "isDevelopment" -> Bool(NODE_ENV = Development)
                  [] k = "isProd" -> Bool(NODE_ENV = Production)
                  [] k = "isProduction" -> Bool(NODE_ENV = Production)
                  [] k = "isTest" -> Bool(NODE_ENV = Test)
                  [] k = "isStaging" -> Bool(NODE_ENV = Staging)
                  [] k = "isLocal" -> Bool(NODE_ENV = Local)
                  [] k = "enviroment" -> NODE_ENV
                  [] OTHER -> parsedEnv[k]]
    IN Spread(NodeEnvOf(parsedEnv, browserMode))

\* the catch clause of validateEnv
Caught(e) ==
    IF e.name \in {"SchemaError", "MissingEnvVariableError", "TransformationError",
                   "ValidationError"}
    THEN e
    ELSE SchemaError(<<"Unexpected error during environment validation: ">>
                        \o e.message)

\* validateEnv is entered: the raw source is prepared and parse starts
ValidateEnvStart ==
    /\ pc = "idle"
    /\ env' = IF options.prefix # ""
              THEN ProcessedEnvVars(options.envVars, options.prefix, EmptyObject)
              ELSE FromEntries(options.envVars)
    /\ pc' = "mapping"
    /\ idx' = 1
    /\ results' = <<>>
    /\ calls' = <<>>
    /\ outcome' = Pending
    /\ UNCHANGED <<schema, validateEnvVars, builderVars, guardVars, runVars>>

\* parse has ended: the enriched object is returned, or the error rethrown
ValidateEnvEnd ==
    /\ pc = "done"
    /\ validated = Pending
    /\ validated' = IF outcome.kind = "threw"
                    THEN ParseThrew(Caught(outcome.error))
                    ELSE ParseReturned(addEnvDerivedProperties(outcome.value, mode))
    /\ UNCHANGED <<schema, env, pc, idx, results, calls, outcome, options, mode,
                   builderVars, guardVars, runVars>>

NextValidateEnv == ValidateEnvStart \/ ResolveField \/ ParseFinish \/ ValidateEnvEnd

-----------------------------------------------------------------------------
(* envGuard, the config-object API: two revisions of index.ts.  The config   *)
(* is held in schema (def is the Config of the variable: type and            *)
(* defaultValue), process.env in env.                                        *)

Config(type, defaultValue) == [type |-> type, defaultValue |-> defaultValue]

\* the leading decimal digits of a string
RECURSIVE DigitPrefix(_)
DigitPrefix(cs) ==
    IF cs # <<>> /\ IsDigit(Head(cs)) THEN <<Head(cs)>> \o DigitPrefix(Tail(cs)) ELSE <<>>

\* parseInt(value, 10): the argument as a string, leading white space skipped,
\* an optional sign, then the leading digits; NaN without a digit
ParseInt(value) ==
    LET Signed(t) ==
            LET Body(neg, u) ==
                    IF DigitPrefix(u) = <<>> THEN NaN
                    ELSE Num((IF neg THEN -1 ELSE 1) * RadixVal(DigitPrefix(u), 10, 0), 1)
            IN IF t # <<>> /\ Head(t) \in {"-", "+"}
               THEN Body(Head(t) = "-", Tail(t))
               ELSE Body(FALSE, t)
    IN Signed(TrimStart(ToStringJS(value)))

\* the port check both revisions give a number variable
IsPort(port) == ~port.nan /\ ~NumLt(port, Int2Num(PortMin)) /\ ~NumLt(Int2Num(PortMax), port)

JsonWords == {<<"{", "}">>, <<"[", "]">>, <<"t", "r", "u", "e">>,
              <<"f", "a", "l", "s", "e">>, <<"n", "u", "l", "l">>}

\* JSON.parse(value) returns: decided for the strings of GuardRaws and for the
\* string of a plain object (no quoted string, no nesting, no fraction)
JsonParses(value) ==
    LET Text(cs) ==
            \/ cs \in JsonWords
            \/ cs # <<>> /\ AllDigits(cs) /\ (Len(cs) = 1 \/ cs[1] # "0")
    IN Text(Trim(ToStringJS(value)))

\* the validator envGuard passes to validateEnv for the type (revision 1)
GuardValidator1(type, value) ==
    CASE type = "number" -> IsPort(ParseInt(value))
      [] type = "boolean" -> value.t = "boolean"
      [] type = "array" -> IsArray(value)
      [] type = "object" -> JsonParses(value)
      [] type = "string" -> TRUE

\* the validator envGuard passes to validateEnv for the type (revision 2)
GuardValidator2(type, value) ==
    CASE type = "number" ->
            IsPort(IF value.t = "string" THEN ParseInt(value) ELSE value)
      [] type = "boolean" -> value.t = "boolean"
      [] type = "array" -> IsArray(value)
      [] type = "object" -> JsonParses(value)
      [] type = "string" -> TRUE

GuardReturn(value) == [threw |-> FALSE, value |-> value, error |-> NoError]
GuardThrow(e) == [threw |-> TRUE, value |-> Undefined, error |-> e]

\* process.env[envName]
loadEnv(envName) == IF envName \in DOMAIN env THEN env[envName] ELSE Undefined

\* validateEnv of revision 1: rawValue = loadEnv(envName) || defaultValue
validateEnv1(envName, type, defaultValue) ==
    LET Check(rawValue) ==
            IF rawValue = Undefined
            THEN GuardThrow(Err("MissingEnvVariableError",
                    <<"No environment variable matches \"", envName, "\" in .env">>))
            ELSE IF ~GuardValidator1(type, rawValue)
            THEN GuardThrow(Err("InvalidEnvVariableError",
                    <<"Environment variable \"", envName, "\" is invalid: ">>
                        \o ToStringJS(rawValue)))
            ELSE GuardReturn(rawValue)
    IN Check(IF IsTruthy(loadEnv(envName)) THEN loadEnv(envName) ELSE defaultValue)

\* validateEnv of revision 2: rawValue = defaultValue ?? loadEnv(envName)
validateEnv2(envName, type, defaultValue) ==
    LET Check(rawValue) ==
            IF rawValue = Undefined
            THEN GuardThrow(Err("MissingEnvVariableError",
                    <<"No environment variable matches \"", envName, "\" in .env">>))
            ELSE IF TypeOf(rawValue) # type
            THEN GuardThrow(Err("InvalidEnvVariableError",
                    <<"Expected type ", type, ", but got ", TypeOf(rawValue)>>))
            ELSE IF ~GuardValidator2(type, rawValue)
            THEN GuardThrow(Err("InvalidEnvVariableError",
                    <<"Environment variable \"", envName, "\" is invalid">>))
            ELSE GuardReturn(rawValue)
    IN Check(IF defaultValue # Undefined THEN defaultValue ELSE loadEnv(envName))

\* envGuard is called
GuardStart ==
    /\ pc = "idle"
    /\ revision # ""
    /\ pc' = "guarding"
    /\ UNCHANGED <<schema, env, idx, results, calls, outcome, validateEnvVars,
                   builderVars, guardVars, runVars>>

\* one iteration of the loop over the config: result[envName] = validateEnv(...)
GuardVariable ==
    /\ pc = "guarding"
    /\ idx <= Len(schema)
    /\ LET Settle(envName, r) ==
            IF r.threw
            THEN /\ outcome' = ParseThrew(r.error)
                 /\ pc' = "done"
                 /\ UNCHANGED <<idx, results>>
            ELSE /\ results' = Append(results,
                        [key |-> envName, value |-> r.value, errors |-> <<>>])
                 /\ idx' = idx + 1
                 /\ UNCHANGED <<pc, outcome>>
       IN Settle(schema[idx].key,
                 IF revision = "1"
                 THEN validateEnv1(schema[idx].key, schema[idx].def.type,
                                   schema[idx].def.defaultValue)
                 ELSE validateEnv2(schema[idx].key, schema[idx].def.type,
                                   schema[idx].def.defaultValue))
    /\ UNCHANGED <<schema, env, calls, validateEnvVars, builderVars, guardVars, runVars>>

\* return result
GuardFinish ==
    /\ pc = "guarding"
    /\ idx > Len(schema)
    /\ outcome' = ParseReturned(ResultObject(results))
    /\ pc' = "done"
    /\ UNCHANGED <<schema, env, idx, results, calls, validateEnvVars, builderVars,
                   guardVars, runVars>>

NextGuard == GuardStart \/ GuardVariable \/ GuardFinish

-----------------------------------------------------------------------------
(* The objects the builder calls of schemaFn create.  A definition object    *)
(* holds its validators and transformers as references into lists, so that   *)
(* an array shared by two objects ({...schema} copies the reference) is one  *)
(* list.                                                                     *)

FactoryTypes == {"string", "number", "boolean", "array", "object"}

CommonModifiers == {"optional", "custom", "transform"}

\* the refinement methods a factory's return value carries
RefinementsOf(type) ==
    CASE type = "string" -> {"oneOf", "url", "min", "max", "email"}
      [] type = "number" -> {"min", "max", "port"}
      [] type = "array" -> {"items", "min", "max", "commaSeparated", "withSeparator"}
      [] type = "object" -> {"strict"}
      [] OTHER -> {}

MethodNames ==
    CommonModifiers \cup UNION {RefinementsOf(type) : type \in FactoryTypes}

\* the function-valued properties of an object
Methods(o) ==
    CASE o.shape = "factory" -> RefinementsOf(o.type)
      [] o.shape = "builder" -> CommonModifiers
      [] OTHER -> {}

\* the value a builder call returns: the schema it holds (a builder in its
\* schema property, a factory's return value as spread fields its refinement
\* methods close over) and the shape that decides its methods
HeapObject(shape, d, vref, tref) ==
    [shape |-> shape, type |-> d.type, validators |-> vref, transformers |-> tref,
     optional |-> d.optional, default |-> d.default]

\* the SchemaDefinition a definition object holds
Deref(o) ==
    SchemaDefinition(o.type, lists[o.validators], lists[o.transformers],
                     o.optional, o.default)

\* the initialSchema of a factory called without options
InitialSchema(type) ==
    CASE type = "string" -> string(Undefined)
      [] type = "number" -> number(Undefined)
      [] type = "boolean" -> boolean(Undefined)
      [] type = "array" -> array(Undefined, Comma)
      [] type = "object" -> object(Undefined)

\* the definition a refinement method builds from its initialSchema
Refined(type, name, default) ==
    CASE type = "string" /\ name = "oneOf" -> stringOneOf(default, <<<<"a">>, <<"b">>>>)
      [] type = "string" /\ name = "url" -> stringUrl(default)
      [] type = "string" /\ name = "min" -> stringMin(default, Int2Num(4))
      [] type = "string" /\ name = "max" -> stringMax(default, Int2Num(4))
      [] type = "string" /\ name = "email" -> stringEmail(default)
      [] type = "number" /\ name = "min" -> numberMin(default, Int2Num(PortMin))
      [] type = "number" /\ name = "max" -> numberMax(default, Int2Num(PortMax))
      [] type = "number" /\ name = "port" -> numberPort(default)
      [] type = "array" /\ name = "items" -> arrayItems(default, Comma, "number")
      [] type = "array" /\ name = "min" -> arrayMin(default, Comma, Int2Num(2))
      [] type = "array" /\ name = "max" -> arrayMax(default, Comma, Int2Num(2))
      [] type = "array" /\ name = "commaSeparated" -> arrayCommaSeparated(default, Comma)
      [] type = "array" /\ name = "withSeparator" ->
            arrayWithSeparator(default, Comma, Pipe)
      [] type = "object" /\ name = "strict" -> objectStrict(default)

\* max() of number and email() return the builder, the others its .schema
ReturnsBuilder(type, name) ==
    (type = "number" /\ name = "max") \/ (type = "string" /\ name = "email")

\* the definition a common modifier builds from the builder's schema
Modified(s, name) ==
    CASE name = "optional" -> builderOptional(s)
      [] name = "custom" -> builderCustom(s, Fn("reject", Int2Num(1)))
      [] name = "transform" -> builderTransform(s, Fn("addOne", Undefined))

\* StoreLists writing the lists of d into the arrays of the object it was
\* spread from, instead of into new ones
StoreLists_inPlace(d, from) ==
    [v |-> from.validators, t |-> from.transformers,
     lists |-> [lists EXCEPT ![from.validators] = d.validators,
                             ![from.transformers] = d.transformers]]

\* { ...from, validators: [...], transformers: [...] }: a list the literal
\* names is a new array, one it does not name is the array of from
StoreLists(d, from) ==
    LET newV == d.validators # lists[from.validators]
        newT == d.transformers # lists[from.transformers]
        withV == IF newV THEN Append(lists, d.validators) ELSE lists
    IN [v |-> IF newV THEN Len(lists) + 1 ELSE from.validators,
        t |-> IF newT THEN Len(withV) + 1 ELSE from.transformers,
        lists |-> IF newT THEN Append(withV, d.transformers) ELSE withV]

MaxObjects == 4     \* values returned by the builder calls of one schemaFn

CanCall == ~lastCall.threw /\ Len(objects) < MaxObjects

Called(target, method) ==
    lastCall' = [target |-> target, method |-> method, threw |-> FALSE,
                 result |-> Len(objects')]

\* builder.string() / number() / boolean() / array() / object()
CallFactory(type) ==
    /\ CanCall
    /\ lists' = lists \o <<InitialSchema(type).validators,
                            InitialSchema(type).transformers>>
    /\ objects' = Append(objects,
                         HeapObject(IF type = "boolean" THEN "definition" ELSE "factory",
                                    InitialSchema(type), Len(lists) + 1, Len(lists) + 2))
    /\ Called(0, type)
    /\ UNCHANGED <<schema, env, pc, idx, results, calls, outcome, validateEnvVars,
                   guardVars, runVars>>

\* a refinement method of a factory's return value
CallRefinement(o, name) ==
    /\ CanCall
    /\ objects[o].shape = "factory"
    /\ name \in Methods(objects[o])
    /\ LET Create(shape, d, stored) ==
            /\ lists' = stored.lists
            /\ objects' = Append(objects, HeapObject(shape, d, stored.v, stored.t))
       IN Create(IF ReturnsBuilder(objects[o].type, name) THEN "builder" ELSE "definition",
                 Refined(objects[o].type, name, objects[o].default),
                 StoreLists(Refined(objects[o].type, name, objects[o].default),
                            objects[o]))
    /\ Called(o, name)
    /\ UNCHANGED <<schema, env, pc, idx, results, calls, outcome, validateEnvVars,
                   guardVars, runVars>>

\* optional() / custom(validator) / transform(transformer) of a builder
CallModifier(b, name) ==
    /\ CanCall
    /\ objects[b].shape = "builder"
    /\ name \in Methods(objects[b])
    /\ LET Create(d, stored) ==
            /\ lists' = stored.lists
            /\ objects' = Append(objects, HeapObject("builder", d, stored.v, stored.t))
       IN Create(Modified(Deref(objects[b]), name),
                 StoreLists(Modified(Deref(objects[b]), name), objects[b]))
    /\ Called(b, name)
    /\ UNCHANGED <<schema, env, pc, idx, results, calls, outcome, validateEnvVars,
                   guardVars, runVars>>

\* a method the value does not have is called: TypeError, schemaFn ends
CallUndefined(o, name) ==
    /\ ~lastCall.threw
    /\ name \notin Methods(objects[o])
    /\ lastCall' = [target |-> o, method |-> name, threw |-> TRUE, result |-> 0]
    /\ UNCHANGED <<schema, env, pc, idx, results, calls, outcome, validateEnvVars,
                   objects, lists, guardVars, runVars>>

\* the calls schemaFn tries on a value whatever its shape: the common modifiers
\* and one refinement
TriedNames == CommonModifiers \cup {"min"}

NextBuilder ==
    \/ \E type \in FactoryTypes : CallFactory(type)
    \/ \E o \in 1..Len(objects), name \in MethodNames : CallRefinement(o, name)
    \/ \E b \in 1..Len(objects), name \in MethodNames : CallModifier(b, name)
    \/ \E o \in 1..Len(objects), name \in TriedNames : CallUndefined(o, name)

-----------------------------------------------------------------------------
(* Schema maps and environments the runs start from *)

Raw443 == Str(<<"4", "4", "3">>)
Raw70000 == Str(<<"7", "0", "0", "0", "0">>)
Raw1 == Str(<<"1">>)
RawAbc == Str(<<"a", "b", "c">>)

\* the environments over the keys of a schema map: each key unset or set
EnvsOver(keys, raws) == UNION {[D -> raws] : D \in SUBSET keys}

KeysOf(sch) == {sch[i].key : i \in 1..Len(sch)}

\* schema maps of 1..MaxFields entries, the i-th declared under FieldKeys[i]
SchemasOver(defs) ==
    UNION {[1..k -> defs] : k \in 1..MaxFields}

Entries(ds) == [i \in 1..Len(ds) |-> [key |-> FieldKeys[i], def |-> ds[i]]]

Idle ==
    /\ pc = "idle"
    /\ idx = 1
    /\ results = <<>>
    /\ calls = <<>>
    /\ outcome = Pending

\* schemaFn has run: its builder calls are not part of the run
NoCall == [target |-> 0, method |-> "", threw |-> FALSE, result |-> 0]

\* the run is not one of envGuard
NoGuard == revision = ""

\* the first parse run on the schema
NoRuns == runs = <<>>

NoObjects ==
    /\ objects = <<>>
    /\ lists = <<>>
    /\ lastCall = NoCall

\* parse is called on envSchema directly: no validateEnv call is under way
NoOptions == [envVars |-> <<>>, prefix |-> ""]

Direct ==
    /\ options = NoOptions
    /\ mode = Bool(FALSE)
    /\ validated = Pending

\* Orchestration: several fields, a few definitions and raw values each
OrchDefs ==
    {numberPort(Undefined), numberPort(Int2Num(70000)), boolean(Undefined),
     builderOptional(numberMax(Undefined, Int2Num(PortMax))),
     builderTransform(numberMax(Undefined, Int2Num(PortMax)), Fn("throws", Undefined)),
     builderCustom(numberMax(Undefined, Int2Num(PortMax)), Fn("vthrows", Undefined))}

OrchRaws == {Raw443, Raw70000, Raw1}

Init ==
    /\ \E ds \in SchemasOver(OrchDefs) : schema = Entries(ds)
    /\ env \in EnvsOver(KeysOf(schema), OrchRaws)
    /\ Idle
    /\ NoObjects
    /\ NoGuard
    /\ NoRuns
    /\ Direct

Spec == Init /\ [][Next]_vars

\* One field, definitions built by chains of builder calls
BuilderOps == {"optional", "reject1", "reject2", "accept", "empty",
               "addOne", "double", "throws"}

ApplyBuilderOp(op, s) ==
    CASE op = "optional" -> builderOptional(s)
      [] op = "reject1" -> builderCustom(s, Fn("reject", Int2Num(1)))
      [] op = "reject2" -> builderCustom(s, Fn("reject", Int2Num(2)))
      [] op = "accept" -> builderCustom(s, Fn("accept", Undefined))
      [] op = "empty" -> builderCustom(s, Fn("empty", Undefined))
      [] op = "addOne" -> builderTransform(s, Fn("addOne", Undefined))
      [] op = "double" -> builderTransform(s, Fn("double", Undefined))
      [] op = "throws" -> builderTransform(s, Fn("throws", Undefined))

RECURSIVE Chains(_, _)
Chains(bases, k) ==
    IF k = 0 THEN bases
    ELSE LET prev == Chains(bases, k - 1)
         IN prev \cup {ApplyBuilderOp(op, s) : op \in BuilderOps, s \in prev}

NumberDefaults == {Undefined, Int2Num(443), Int2Num(70000)}

PipelineDefs ==
    Chains({numberMax(d, Int2Num(PortMax)) : d \in NumberDefaults}, MaxChain)
    \cup {numberPort(d) : d \in NumberDefaults}
    \cup {number(d) : d \in NumberDefaults}
    \cup {boolean(d) : d \in {Undefined, Bool(TRUE)}}
    \cup {string(d) : d \in {Undefined, RawAbc}}
    \cup {stringMin(d, Int2Num(4)) : d \in {Undefined, RawAbc}}

PipelineRaws == {Raw443, Raw70000, RawAbc, Undefined}

\* the key set, the key set to undefined, or only its VITE_ twin set
PipelineEnvs ==
    LET key == FieldKeys[1]
    IN EnvsOver({key}, PipelineRaws) \cup [{ViteKey(key)} -> {Raw443, Raw1}]

InitPipeline ==
    /\ \E d \in PipelineDefs : schema = Entries(<<d>>)
    /\ env \in PipelineEnvs
    /\ Idle
    /\ NoObjects
    /\ NoGuard
    /\ NoRuns
    /\ Direct

SpecPipeline == InitPipeline /\ [][Next]_vars

\* One field whose entry is the value a common modifier returned, on a builder
\* made by number().max(65535)
ModifierEntries ==
    {BuilderEntry(s) :
        s \in Chains({numberMax(d, Int2Num(PortMax)) : d \in NumberDefaults}, MaxChain)
               \ {numberMax(d, Int2Num(PortMax)) : d \in NumberDefaults}}

InitEntries ==
    /\ \E d \in ModifierEntries : schema = Entries(<<d>>)
    /\ env \in PipelineEnvs
    /\ Idle
    /\ NoObjects
    /\ NoGuard
    /\ NoRuns
    /\ Direct

SpecEntries == InitEntries /\ [][Next]_vars

\* One number field, raw strings generated over an alphabet
RawAlphabet == {"0", "1", "8", ".", "-", " ", "a", "x"}

NamedRaws ==
    {<<"4", "4", "3">>, <<"7", "0", "0", "0", "0">>, <<"a", "b", "c">>,
     <<"6", "5", "5", "3", "5">>, <<"6", "5", "5", "3", "6">>,
     <<"8", "0", ".", "5">>, <<"6", "5", "5", "3", "5", ".", "5">>}

RawStrings ==
    UNION {[1..k -> RawAlphabet] : k \in 0..MaxRawLen} \cup NamedRaws

NumberDefs ==
    {number(Undefined), numberPort(Undefined), numberMin(Undefined, Int2Num(1))}

InitNumber ==
    /\ \E d \in NumberDefs : schema = Entries(<<d>>)
    /\ \E cs \in RawStrings : env = [k \in {FieldKeys[1]} |-> Str(cs)]
    /\ Idle
    /\ NoObjects
    /\ NoGuard
    /\ NoRuns
    /\ Direct

SpecNumber == InitNumber /\ [][Next]_vars

\* One field declared as number().min(m) or as number().max(n): min returns the
\* definition, max the builder holding it
BoundValues == {1, 8}

BoundDefs ==
    {numberMin(Undefined, Int2Num(m)) : m \in BoundValues}
    \cup {BuilderEntry(numberMax(Undefined, Int2Num(n))) : n \in BoundValues}

InitBounds ==
    /\ \E d \in BoundDefs : schema = Entries(<<d>>)
    /\ \E cs \in RawStrings : env = [k \in {FieldKeys[1]} |-> Str(cs)]
    /\ Idle
    /\ NoObjects
    /\ NoGuard
    /\ NoRuns
    /\ Direct

SpecBounds == InitBounds /\ [][Next]_vars

\* One boolean field, raw strings generated over an alphabet
BooleanAlphabet == {"1", "0", "n", "o", "N", "y", "e", "s", "Y", " "}

NamedBooleanRaws ==
    {<<"t", "r", "u", "e">>, <<"T", "R", "U", "E">>, <<"T", "r", "u", "e">>,
     <<"f", "a", "l", "s", "e">>, <<"F", "A", "L", "S", "E">>,
     <<" ", "t", "r", "u", "e", " ">>, <<"a", "b", "c">>}

BooleanRaws ==
    UNION {[1..k -> BooleanAlphabet] : k \in 0..MaxRawLen} \cup NamedBooleanRaws

InitBoolean ==
    /\ schema = Entries(<<boolean(Undefined)>>)
    /\ \E cs \in BooleanRaws : env = [k \in {FieldKeys[1]} |-> Str(cs)]
    /\ Idle
    /\ NoObjects
    /\ NoGuard
    /\ NoRuns
    /\ Direct

SpecBoolean == InitBoolean /\ [][Next]_vars

\* One array field, raw strings generated over an alphabet
ArrayAlphabet == {"a", "b", ",", "|", " "}


NamedArrayRaws ==
    {<<"a", ",", " ", "b", " ", ",", "c">>, <<"a", "|", "b">>,
     <<"a", " ", "|", " ", "b", "|", "c">>}

ArrayRaws ==
    UNION {[1..k -> ArrayAlphabet] : k \in 0..MaxRawLen} \cup NamedArrayRaws

ArrayDefs ==
    {array(Undefined, Comma), array(Undefined, Pipe),
     arrayWithSeparator(Undefined, Comma, Pipe),
     arrayCommaSeparated(Undefined, Comma),
     arrayMin(Undefined, Comma, Int2Num(2)), arrayMax(Undefined, Comma, Int2Num(2)),
     arrayItems(Undefined, Comma, "number")}

InitArray ==
    /\ \E d \in ArrayDefs : schema = Entries(<<d>>)
    /\ \E cs \in ArrayRaws : env = [k \in {FieldKeys[1]} |-> Str(cs)]
    /\ Idle
    /\ NoObjects
    /\ NoGuard
    /\ NoRuns
    /\ Direct

SpecArray == InitArray /\ [][Next]_vars

\* One array field refined with items(itemSchema), raw strings of digits,
\* letters and commas
ItemSchemas == {"string", "number", "number().min(1)",
                "number().max(8).custom(throws).schema"}

ItemAlphabet == {"0", "1", "9", "a", ","}

ItemRaws == UNION {[1..k -> ItemAlphabet] : k \in 0..MaxRawLen}

InitItems ==
    /\ \E t \in ItemSchemas : schema = Entries(<<arrayItems(Undefined, Comma, t)>>)
    /\ \E cs \in ItemRaws : env = [k \in {FieldKeys[1]} |-> Str(cs)]
    /\ Idle
    /\ NoObjects
    /\ NoGuard
    /\ NoRuns
    /\ Direct

SpecItems == InitItems /\ [][Next]_vars

\* One object field, plain or strict, with a default or without, its raw value
\* absent or a string
ObjectKeyNames == {<<"a">>, <<"b">>, <<"constructor">>}

\* the plain objects of at most two keys
ObjectValues ==
    {Obj(<<>>)} \cup {Obj(<<k>>) : k \in ObjectKeyNames}
    \cup {Obj(<<p[1], p[2]>>) :
            p \in {q \in ObjectKeyNames \X ObjectKeyNames : q[1] # q[2]}}

ObjectDefaults == {Undefined, Null, Arr(<<>>)} \cup ObjectValues

ObjectDefs ==
    {object(d) : d \in ObjectDefaults} \cup {objectStrict(d) : d \in ObjectDefaults}

ObjectRaws == {Str(<<>>), Str(<<"a", "b">>), Str(<<"{", "}">>)}

InitObject ==
    /\ \E d \in ObjectDefs : schema = Entries(<<d>>)
    /\ env \in EnvsOver(KeysOf(schema), ObjectRaws)
    /\ Idle
    /\ NoObjects
    /\ NoGuard
    /\ NoRuns
    /\ Direct

SpecObject == InitObject /\ [][Next]_vars

\* One field of each type, with and without default, optional or not, set to
\* the empty string, to another string, or not set
EmptyBases ==
    {string(d) : d \in {Undefined, RawAbc}}
    \cup {stringMin(d, Int2Num(4)) : d \in {Undefined, RawAbc}}
    \cup {number(d) : d \in {Undefined, Int2Num(443)}}
    \cup {numberPort(d) : d \in {Undefined, Int2Num(443)}}
    \cup {boolean(d) : d \in {Undefined, Bool(TRUE)}}
    \cup {array(d, Comma) : d \in {Undefined, Arr(<<RawAbc>>)}}
    \cup {arrayMin(d, Comma, Int2Num(1)) : d \in {Undefined, Arr(<<RawAbc>>)}}
    \cup {object(d) : d \in {Undefined, Obj(NestedKeys)}}
    \cup {objectStrict(d) : d \in {Undefined, Obj(NestedKeys)}}

EmptyDefs == EmptyBases \cup {builderOptional(s) : s \in EmptyBases}

RawEmpty == Str(<<>>)

InitEmpty ==
    /\ \E d \in EmptyDefs : schema = Entries(<<d>>)
    /\ env \in EnvsOver({FieldKeys[1]}, {RawEmpty, Raw1, RawAbc})
    /\ Idle
    /\ NoObjects
    /\ NoGuard
    /\ NoRuns
    /\ Direct

SpecEmpty == InitEmpty /\ [][Next]_vars

\* One schema map parsed against several raw sources in turn
ReuseDefs == {numberPort(Undefined), boolean(Undefined)}

ReuseEnvs ==
    {<<>>,
     [k \in {FieldKeys[1]} |-> Raw443],
     [k \in {FieldKeys[1]} |-> Raw70000],
     [k \in {FieldKeys[1], FieldKeys[2], FieldKeys[3]} |-> Raw1]}

InitReuse ==
    /\ \E ds \in SchemasOver(ReuseDefs) : schema = Entries(ds)
    /\ env \in ReuseEnvs
    /\ Idle
    /\ NoObjects
    /\ NoGuard
    /\ NoRuns
    /\ Direct

NextReuse ==
    \/ ParseStart
    \/ ResolveField
    \/ ParseFinish
    \/ \E source \in ReuseEnvs : ParseAgain(source)

SpecReuse == InitReuse /\ [][NextReuse]_vars

\* validateEnv: an environment name among the raw values, a prefix or none,
\* in Node or in a browser bundle with import.meta.env.MODE
MaxEnvVars == 2     \* entries of options.envVars

Qa == Str(<<"q", "a">>)

EnvValues == {Production, Development, Test, Staging, Local, Qa, Str(<<>>), Raw443}

EnvVarKeys == {"NODE_ENV", "APP_NODE_ENV", "PORT"}

\* entry lists of at most MaxEnvVars entries with distinct keys
EnvVarsEntries ==
    UNION {{es \in [1..n -> [key : EnvVarKeys, value : EnvValues]] :
                \A i, j \in 1..n : es[i].key = es[j].key => i = j}
           : n \in 0..MaxEnvVars}

EnvSchemas ==
    {<<>>,
     <<[key |-> "NODE_ENV", def |-> string(Undefined)]>>,
     <<[key |-> "NODE_ENV", def |-> string(Production)]>>,
     <<[key |-> "PORT", def |-> numberPort(Undefined)]>>,
     <<[key |-> "PORT", def |-> numberPort(Int2Num(443))],
       [key |-> "NODE_ENV", def |-> string(Undefined)]>>,
     <<[key |-> "DEBUG", def |-> builderOptional(numberMax(Undefined, Int2Num(PortMax)))],
       [key |-> "NODE_ENV", def |-> string(Development)]>>}

InitValidateEnv ==
    /\ schema \in EnvSchemas
    /\ env = EmptyObject
    /\ Idle
    /\ NoObjects
    /\ NoGuard
    /\ NoRuns
    /\ \E es \in EnvVarsEntries, p \in {"", "APP_"} : options = [envVars |-> es, prefix |-> p]
    /\ mode \in {Bool(FALSE), Undefined, Test}
    /\ validated = Pending

SpecValidateEnv == InitValidateEnv /\ [][NextValidateEnv]_vars

\* validateEnv on schema maps that may declare a field under one of the names
\* addEnvDerivedProperties writes
EnrichKeys == DerivedKeys \cup {"NODE_ENV", "PORT"}

EnrichDef(key) ==
    CASE key = "PORT" -> numberPort(Undefined)
      [] key \in {"isDev", "isProd"} -> boolean(Undefined)
      [] OTHER -> string(Undefined)

EnrichSchemas ==
    {<<[key |-> k, def |-> EnrichDef(k)]>> : k \in EnrichKeys}
    \cup {<<[key |-> k, def |-> EnrichDef(k)],
            [key |-> "NODE_ENV", def |-> string(Undefined)]>>
          : k \in EnrichKeys \ {"NODE_ENV"}}

EnrichValues == {Production, Raw1, Str(<<"n", "o">>)}

InitEnrich ==
    /\ schema \in EnrichSchemas
    /\ env = EmptyObject
    /\ Idle
    /\ NoObjects
    /\ NoGuard
    /\ NoRuns
    /\ \E vs \in [1..Len(schema) -> EnrichValues] :
            options = [envVars |-> [i \in 1..Len(schema) |->
                                      [key |-> schema[i].key, value |-> vs[i]]],
                       prefix |-> ""]
    /\ mode \in {Bool(FALSE), Test}
    /\ validated = Pending

SpecEnrich == InitEnrich /\ [][NextValidateEnv]_vars

\* envGuard on one declared variable, with and without defaultValue (the
\* defaults of the test suite), the variable unset or set in process.env
GuardTypes == {"string", "number", "boolean", "array", "object"}

GuardDefault(type) ==
    CASE type = "string" -> Str(<<"k", "e", "y">>)
      [] type = "number" -> Int2Num(5000)
      [] type = "boolean" -> Bool(FALSE)
      [] type = "array" -> Arr(<<>>)
      [] type = "object" -> Obj(<<>>)

GuardConfigs ==
    {Config(type, Undefined) : type \in GuardTypes}
    \cup {Config(type, GuardDefault(type)) : type \in GuardTypes}

GuardRaws ==
    {RawAbc, Raw70000, Raw443, Str(<<>>), Str(<<"t", "r", "u", "e">>),
     Str(<<"{", "}">>)}

InitGuard ==
    /\ \E c \in GuardConfigs : schema = Entries(<<c>>)
    /\ env \in EnvsOver(KeysOf(schema), GuardRaws)
    /\ revision \in {"1", "2"}
    /\ Idle
    /\ NoObjects
    /\ NoRuns
    /\ Direct

SpecGuard == InitGuard /\ [][NextGuard]_vars

\* schemaFn: builder calls from an empty heap
InitBuilder ==
    /\ schema = <<>>
    /\ env = EmptyObject
    /\ Idle
    /\ Direct
    /\ NoObjects
    /\ NoGuard
    /\ NoRuns

SpecBuilder == InitBuilder /\ [][NextBuilder]_vars

-----------------------------------------------------------------------------
(* Vocabulary of the properties *)

FieldKey(i) == schema[i].key
FieldDef(i) == schema[i].def
FieldRaw(i) == Lookup(env, FieldKey(i))
Fields == 1..Len(schema)

\* the map callback has run for entry i (it returned, or it threw and ended parse)
Evaluated(i) == i \in Fields /\ (i < idx \/ (i = idx /\ pc = "done"))

\* the invocations logged for one key, in order
CallsOf(key) == SelectSeq(calls, LAMBDA c : c.key = key)
TransformerCallsOf(key) == SelectSeq(calls, LAMBDA c : c.key = key /\ c.op = "transformer")
ValidatorCallsOf(key) == SelectSeq(calls, LAMBDA c : c.key = key /\ c.op = "validator")

\* the raw value is absent: not in the source under either key, or set to undefined
Absent(i) == FieldRaw(i) = Undefined

HasDefault(i) == FieldDef(i).default # Undefined

\* absent, not optional, no default
IsMissing(i) == Absent(i) /\ ~FieldDef(i).optional /\ ~HasDefault(i)

\* the value the transformers start from, when there is one
StartValue(i) == IF Absent(i) THEN FieldDef(i).default ELSE FieldRaw(i)

\* the outputs of the transformers applied one after the other, from v on:
\* <<v, t1(v), t2(t1(v)), ...>>, ending before the first one that throws
RECURSIVE Outputs(_, _)
Outputs(ts, v) ==
    IF ts = <<>> THEN <<v>>
    ELSE LET Rest(r) == IF r.threw THEN <<v>> ELSE <<v>> \o Outputs(Tail(ts), r.val)
         IN Rest(ApplyTransformer(Head(ts), v))

\* some transformer of field i throws on its input
TransformThrows(i) ==
    /\ StartValue(i) # Undefined
    /\ Len(Outputs(FieldDef(i).transformers, StartValue(i)))
            <= Len(FieldDef(i).transformers)

\* the error the first throwing transformer of field i throws
ThrownByTransformer(i) ==
    LET Last(outs) ==
            ApplyTransformer(FieldDef(i).transformers[Len(outs)], outs[Len(outs)]).error
    IN Last(Outputs(FieldDef(i).transformers, StartValue(i)))

\* the fully transformed value of field i (no transformer throws)
FinalValue(i) ==
    LET Last(outs) == outs[Len(outs)]
    IN Last(Outputs(FieldDef(i).transformers, StartValue(i)))

\* the non-empty messages of all validators of field i on v, in declaration order
RECURSIVE Said(_, _)
Said(vs, v) ==
    IF vs = <<>> THEN <<>>
    ELSE LET Kept(r) == IF Truthy(r.res) THEN <<r.res.msg>> ELSE <<>>
         IN Kept(ApplyValidator(Head(vs), v)) \o Said(Tail(vs), v)

MessagesOn(i, v) == Said(FieldDef(i).validators, v)

\* field i has a value, its transformers succeed, and no validator throws
Validated(i) ==
    /\ StartValue(i) # Undefined
    /\ ~TransformThrows(i)
    /\ \A j \in 1..Len(FieldDef(i).validators) :
            ~ApplyValidator(FieldDef(i).validators[j], FinalValue(i)).threw

\* field i fails validation: some validator reports a message on its final value
IsInvalid(i) == Validated(i) /\ MessagesOn(i, FinalValue(i)) # <<>>

\* the FieldResult of entry i, once map() has produced it
HasResult(i) == i \in 1..Len(results)

-----------------------------------------------------------------------------
(* C1: resolving an absent field whose definition carries a default yields   *)
(* exactly that default as the field's value, and runs none of its           *)
(* transformers or validators on it.                                         *)
(* The code puts the default through the transformers and validators.        *)

C1_DefaultBypassesPipeline ==
    \A i \in Fields :
        (Evaluated(i) /\ Absent(i) /\ HasDefault(i)) =>
            /\ HasResult(i)
            /\ results[i].value = FieldDef(i).default
            /\ results[i].errors = <<>>
            /\ CallsOf(FieldKey(i)) = <<>>

-----------------------------------------------------------------------------
(* C2: when the field being resolved is absent, not optional and without     *)
(* default, parse throws MissingEnvVariableError naming that field, and no   *)
(* field declared after it is evaluated: none of their transformers or       *)
(* validators runs and none of their messages is reported.                   *)

C2_MissingAbortsParse ==
    \A i \in Fields :
        (Evaluated(i) /\ IsMissing(i)) =>
            /\ pc = "done"
            /\ outcome.kind = "threw"
            /\ outcome.error.name = "MissingEnvVariableError"
            /\ Contains(outcome.error.message, <<FieldKey(i)>>)
            /\ Len(results) = i - 1
            /\ \A j \in Fields : j > i =>
                    /\ ~Evaluated(j)
                    /\ CallsOf(FieldKey(j)) = <<>>
                    /\ ~Contains(outcome.error.message, <<FieldKey(j)>>)

\* a missing field declared before two fields that would fail validation
C2_Witness ==
    /\ Len(schema) = 3
    /\ pc = "done"
    /\ IsMissing(1)
    /\ IsInvalid(2)
    /\ IsInvalid(3)

-----------------------------------------------------------------------------
(* C3: whenever parse has ended on a schema map with two or more fields that *)
(* fail validation and no field that is missing or fails transformation, it  *)
(* has thrown one failure whose message holds, for every invalid field, the  *)
(* field's name and each of its validator messages.                          *)
(* The code throws ValidationError at the first invalid field, so the        *)
(* messages of the later ones are never reported.                            *)

InvalidFields == {i \in Fields : IsInvalid(i)}

C3_AggregateOfInvalidFields ==
    (/\ pc = "done"
     /\ Cardinality(InvalidFields) >= 2
     /\ \A i \in Fields : ~IsMissing(i) /\ ~TransformThrows(i)) =>
        /\ outcome.kind = "threw"
        /\ \A i \in InvalidFields :
                /\ Contains(outcome.error.message, <<FieldKey(i)>>)
                /\ \A k \in 1..Len(MessagesOn(i, FinalValue(i))) :
                        Contains(outcome.error.message, MessagesOn(i, FinalValue(i))[k])

-----------------------------------------------------------------------------
(* C4: a field whose validators report messages does not end parse: once     *)
(* parse has ended, every field declared after an invalid field has been     *)
(* resolved, up to the first later field that is missing or fails            *)
(* transformation.                                                           *)
(* The code ends parse at the invalid field itself (the ValidationError      *)
(* thrown by validateValue is rethrown by the map callback).                 *)

C4_InvalidNeverAborts ==
    pc = "done" =>
        \A i \in Fields :
            (Evaluated(i) /\ IsInvalid(i)) =>
                \A j \in Fields :
                    (j > i /\ \A k \in (i + 1)..j : ~IsMissing(k) /\ ~TransformThrows(k))
                        => Evaluated(j)

-----------------------------------------------------------------------------
(* C5: when a transformer of the field being resolved throws on a present    *)
(* raw value, parse ends at once with a TransformationError carrying the     *)
(* field's name and the thrown error's message; none of the field's          *)
(* validators runs, and no later field is evaluated or reported.             *)

C5_TransformationAborts ==
    \A i \in Fields :
        (Evaluated(i) /\ ~Absent(i) /\ TransformThrows(i)) =>
            /\ pc = "done" /\ outcome.kind = "threw"
            /\ outcome.error =
                    TransformationError(FieldKey(i), ThrownByTransformer(i).message)
            /\ Contains(outcome.error.message, <<FieldKey(i)>>)
            /\ Contains(outcome.error.message, ThrownByTransformer(i).message)
            /\ ValidatorCallsOf(FieldKey(i)) = <<>>
            /\ Len(results) = i - 1
            /\ \A j \in Fields : j > i =>
                    /\ ~Evaluated(j) /\ CallsOf(FieldKey(j)) = <<>>
                    /\ ~Contains(outcome.error.message, <<FieldKey(j)>>)

\* parse ended at the second of three fields: its second transformer threw
\* after the first had run, and an invalid field follows it
C5_Witness ==
    /\ Len(schema) = 3 /\ pc = "done" /\ idx = 2
    /\ ~Absent(2) /\ TransformThrows(2)
    /\ Len(TransformerCallsOf(FieldKey(2))) = 2
    /\ IsInvalid(3)

-----------------------------------------------------------------------------
(* C6: in resolving a field with a present raw value, the transformers are   *)
(* called in declared order, the first on the raw value and each next one on *)
(* its predecessor's output; every transformer call precedes every validator *)
(* call; validators run only when every transformer has returned, and each   *)
(* receives the output of the last transformer.                              *)

C6_TransformersThenValidators ==
    \A i \in Fields :
        (Evaluated(i) /\ ~Absent(i)) =>
            LET Ordered(ts, vs, outs) ==
                    /\ CallsOf(FieldKey(i)) = ts \o vs
                    /\ Len(ts) = IF TransformThrows(i) THEN Len(outs)
                                 ELSE Len(FieldDef(i).transformers)
                    /\ \A k \in 1..Len(ts) : ts[k].i = k /\ ts[k].arg = outs[k]
                    /\ vs # <<>> => ~TransformThrows(i)
                    /\ \A k \in 1..Len(vs) : vs[k].arg = FinalValue(i)
            IN Ordered(TransformerCallsOf(FieldKey(i)), ValidatorCallsOf(FieldKey(i)),
                       Outputs(FieldDef(i).transformers, StartValue(i)))

\* "443" went through Number, v + 1 and v * 2 in that order (888, where the
\* other order gives 887), and two validators then ran on 888
C6_Witness ==
    /\ pc = "done" /\ outcome.kind = "returned" /\ FieldRaw(1) = Raw443
    /\ Len(TransformerCallsOf(FieldKey(1))) = 3
    /\ FieldDef(1).transformers[2].kind = "addOne"
    /\ FieldDef(1).transformers[3].kind = "double"
    /\ Len(ValidatorCallsOf(FieldKey(1))) = 2
    /\ results[1].value = Int2Num(888)

-----------------------------------------------------------------------------
(* C7: once the transformers of a field have returned (and no validator      *)
(* throws), every validator is called once, in declared order, on the final  *)
(* value, whatever the earlier ones returned; the errors of the field are    *)
(* exactly the non-empty messages in declaration order: a non-empty list is  *)
(* thrown joined with ", " in a ValidationError, an empty one is returned.   *)

C7_AllValidatorsCollected ==
    \A i \in Fields :
        (Evaluated(i) /\ Validated(i)) =>
            LET Collected(vs, msgs) ==
                    /\ Len(vs) = Len(FieldDef(i).validators)
                    /\ \A k \in 1..Len(vs) : vs[k].i = k /\ vs[k].arg = FinalValue(i)
                    /\ IF msgs = <<>>
                       THEN HasResult(i) /\ results[i].errors = msgs
                       ELSE /\ pc = "done" /\ idx = i
                            /\ outcome = ParseThrew(ValidationError(FieldKey(i),
                                                        Join(msgs, <<", ">>)))
            IN Collected(ValidatorCallsOf(FieldKey(i)), MessagesOn(i, FinalValue(i)))

\* four validators on 70000: the base one passes, max reports, a custom one
\* returns the empty string, the last custom one reports
C7_Witness ==
    /\ pc = "done" /\ FieldRaw(1) = Raw70000
    /\ Len(ValidatorCallsOf(FieldKey(1))) = 4
    /\ FieldDef(1).validators[3].kind = "empty"
    /\ FieldDef(1).validators[4].kind = "reject"
    /\ Len(MessagesOn(1, FinalValue(1))) = 2

-----------------------------------------------------------------------------
(* C8: an absent raw value of a definition that is optional and has no       *)
(* default resolves to the value undefined with an empty error list; no      *)
(* transformer or validator is called, no MissingEnvVariableError is thrown, *)
(* and parse of that one field returns an object holding undefined for it.   *)

C8_OptionalAbsentResolves ==
    \A i \in Fields :
        (Evaluated(i) /\ Absent(i) /\ FieldDef(i).optional /\ ~HasDefault(i)) =>
            /\ HasResult(i)
            /\ results[i].value = Undefined
            /\ results[i].errors = <<>>
            /\ CallsOf(FieldKey(i)) = <<>>
            /\ outcome.error.name # "MissingEnvVariableError"
            /\ (pc = "done" /\ Len(schema) = 1) =>
                    outcome = ParseReturned([k \in {FieldKey(i)} |-> Undefined])

\* parse returned for an optional field that is not set, whose definition
\* holds a transformer and a custom validator that rejects every value
C8_Witness ==
    /\ pc = "done" /\ outcome.kind = "returned"
    /\ Absent(1) /\ FieldDef(1).optional /\ ~HasDefault(1)
    /\ FieldDef(1).transformers # <<>>
    /\ Len(FieldDef(1).validators) = 3
    /\ FieldDef(1).validators[3].kind = "reject"

-----------------------------------------------------------------------------
(* C9: a number field refined with port() and given a numeric raw string     *)
(* resolves, to the number the string denotes, exactly when that number is   *)
(* an integer from 1 to 65535; for every other number parse throws a         *)
(* ValidationError.                                                          *)
(* The code only compares against 1 and 65535: "80.5" resolves to 80.5.      *)

IsPortField(i) == FieldDef(i) = numberPort(Undefined)

RawNumber(i) == StringToNumber(FieldRaw(i).s)

C9_PortIffIntegerInRange ==
    \A i \in Fields :
        (Evaluated(i) /\ IsPortField(i) /\ ~Absent(i) /\ ~RawNumber(i).nan) =>
            LET Settled(v, resolved) ==
                    /\ resolved <=> (/\ IsInteger(v)
                                     /\ v.n >= PortMin * v.d
                                     /\ v.n <= PortMax * v.d)
                    /\ resolved => results[i].value = v /\ results[i].errors = <<>>
                    /\ ~resolved => /\ outcome.kind = "threw"
                                    /\ outcome.error.name = "ValidationError"
            IN Settled(RawNumber(i), HasResult(i))

-----------------------------------------------------------------------------
(* C10: for a number field, a present raw value that Number() turns into NaN *)
(* makes parse throw a ValidationError whose message is the base validator's *)
(* "Expected number, but got ..." (the transformer returns NaN without       *)
(* throwing, so it is not a TransformationError, and NaN is never the        *)
(* resolved value).                                                          *)

C10_NonNumericIsValidationError ==
    \A i \in Fields :
        (/\ Evaluated(i) /\ FieldDef(i).type = "number"
         /\ ~Absent(i) /\ RawNumber(i).nan) =>
            /\ ~HasResult(i)
            /\ pc = "done" /\ outcome.kind = "threw"
            /\ outcome.error.name = "ValidationError"
            /\ Contains(outcome.error.message, <<FieldKey(i)>>)
            /\ Contains(outcome.error.message, <<"Expected number, but got ">>)
            /\ TransformerCallsOf(FieldKey(i)) # <<>>
            /\ ValidatorCallsOf(FieldKey(i))[1].arg = NaN

\* parse ended on the plain number field set to "abc"
C10_Witness ==
    /\ pc = "done" /\ FieldDef(1) = number(Undefined) /\ FieldRaw(1) = RawAbc
    /\ outcome.error.name = "ValidationError"

-----------------------------------------------------------------------------
(* C11: for a boolean field and a present raw string s, s resolves to true   *)
(* exactly when s is "true", "1" or "yes" up to letter case, to false        *)
(* exactly when s is "false", "0" or "no" up to letter case, and for every   *)
(* other s (one with surrounding white space included) parse throws a        *)
(* TransformationError.                                                      *)
(* The code trims s before comparing, so " 1" resolves to true.              *)

TrueWords == {<<"t", "r", "u", "e">>, <<"1">>, <<"y", "e", "s">>}
FalseWords == {<<"f", "a", "l", "s", "e">>, <<"0">>, <<"n", "o">>}

ResolvedTo(i, v) == HasResult(i) /\ results[i].value = v /\ results[i].errors = <<>>

C11_BooleanExactWords ==
    \A i \in Fields :
        (Evaluated(i) /\ FieldDef(i).type = "boolean" /\ ~Absent(i)) =>
            LET Settled(word) ==
                    /\ ResolvedTo(i, Bool(TRUE)) <=> word \in TrueWords
                    /\ ResolvedTo(i, Bool(FALSE)) <=> word \in FalseWords
                    /\ word \notin TrueWords \cup FalseWords =>
                            /\ pc = "done" /\ outcome.kind = "threw"
                            /\ outcome.error.name = "TransformationError"
            IN Settled(ToLowerCase(FieldRaw(i).s))

-----------------------------------------------------------------------------
(* C12: an array field with a present raw string resolves to the items      *)
(* between the occurrences of its separator ("," unless array() or           *)
(* withSeparator() was given another), each trimmed, in the order of the raw *)
(* string: one item more than there are separators, no item holding a        *)
(* separator or starting or ending with white space, and the items read one  *)
(* after the other being the raw string without separators and white space.  *)
(* "a, b ,c" gives a, b, c and with withSeparator("|") "a|b" gives a, b.     *)

\* the separator the definition of field i splits on
ConfiguredSeparator(i) == FieldDef(i).transformers[1].arg.s

Without(cs, dropped) == SelectSeq(cs, LAMBDA c : c \notin dropped)

RECURSIVE Flatten(_)
Flatten(items) == IF items = <<>> THEN <<>> ELSE Head(items) \o Flatten(Tail(items))

IsTrimmed(cs) == cs = <<>> \/ (~IsSpace(cs[1]) /\ ~IsSpace(cs[Len(cs)]))

ItemsOf(raw, sep, items) ==
    /\ Len(items) = Cardinality({k \in 1..Len(raw) : raw[k] = sep[1]}) + 1
    /\ \A k \in 1..Len(items) : IsTrimmed(items[k]) /\ ~Contains(items[k], sep)
    /\ Without(Flatten(items), {" "}) = Without(raw, {sep[1], " "})

-----------------------------------------------------------------------------
(* C13: when validateEnv returns and the resolved NODE_ENV is "production",  *)
(* the returned object has isProd true and isDev, isDevelopment,             *)
(* isProduction, isTest, isStaging and isLocal all false.                    *)
(* The code sets isProduction by the same comparison as isProd: it is true.  *)

\* the NODE_ENV parse resolved, undefined when the schema does not declare it
ResolvedNodeEnv ==
    IF outcome.kind = "returned" /\ "NODE_ENV" \in DOMAIN outcome.value
    THEN outcome.value["NODE_ENV"]
    ELSE Undefined

C13_OnlyIsProdOnProduction ==
    (validated.kind = "returned" /\ ResolvedNodeEnv = Production) =>
        /\ validated.value["isProd"] = Bool(TRUE)
        /\ \A k \in {"isDev", "isDevelopment", "isProduction", "isTest", "isStaging",
                    "isLocal"} :
                validated.value[k] = Bool(FALSE)

-----------------------------------------------------------------------------
(* C14: whenever validateEnv returns, the returned object holds under the    *)
(* key "environment" exactly the NODE_ENV that parse resolved (undefined and *)
(* the empty string included, nothing put in its place), and every flag is   *)
(* the comparison of that value with the flag's environment name.            *)
(* The code writes the key "enviroment", and replaces a falsy NODE_ENV by    *)
(* import.meta.env.MODE or "development" before comparing and storing it.    *)

FlagNames ==
    [isDev |-> Development, isDevelopment |-> Development, isProd |-> Production,
     isProduction |-> Production, isTest |-> Test, isStaging |-> Staging,
     isLocal |-> Local]

C14_EnvironmentPassThrough ==
    validated.kind = "returned" =>
        /\ "environment" \in DOMAIN validated.value
        /\ validated.value["environment"] = ResolvedNodeEnv
        /\ \A k \in DOMAIN FlagNames :
                validated.value[k] = Bool(ResolvedNodeEnv = FlagNames[k])

-----------------------------------------------------------------------------
(* C15: whenever parse returns, the keys of the returned object are exactly  *)
(* the field names declared in the schema map, those of optional fields that *)
(* resolved to undefined included; a key of the raw source that the schema   *)
(* does not declare is not a key of the result.                              *)

C15_ResultKeysAreDeclared ==
    outcome.kind = "returned" =>
        /\ DOMAIN outcome.value = KeysOf(schema)
        /\ \A k \in DOMAIN env : k \notin KeysOf(schema) => k \notin DOMAIN outcome.value

\* parse returned for an optional DEBUG that is not set, from a raw source
\* holding PORT and APP_NODE_ENV, which the schema does not declare
C15_Witness ==
    /\ outcome.kind = "returned"
    /\ KeysOf(schema) = {"DEBUG", "NODE_ENV"}
    /\ outcome.value["DEBUG"] = Undefined
    /\ DOMAIN env = {"PORT", "APP_NODE_ENV"}

-----------------------------------------------------------------------------
(* Builder calls *)

\* the object the last call returned, and the one it was called on
Result == objects[lastCall.result]
Target == objects[lastCall.target]

\* the last call was a method of an object and returned
MethodReturned == lastCall.target > 0 /\ ~lastCall.threw

IsPrefix(s, t) == Len(s) <= Len(t) /\ SubSeq(t, 1, Len(s)) = s

\* what the call builds from the definition its target holds
Built(target, name) ==
    IF target.shape = "factory"
    THEN Refined(target.type, name, target.default)
    ELSE Modified(Deref(target), name)

(* C16: a builder call changes no object and no list that existed before it, *)
(* so the definition held by the object it was called on (validators,        *)
(* transformers, optional, default) and the definitions of all other         *)
(* branches stay as they were; the definition it returns is built from the   *)
(* one its target held before the call and from the call alone.              *)
C16_BranchesIndependent ==
    [][/\ \A o \in 1..Len(objects) : Len(objects') >= o /\ objects'[o] = objects[o]
       /\ \A l \in 1..Len(lists) : Len(lists') >= l /\ lists'[l] = lists[l]
       /\ (lastCall' # lastCall /\ lastCall'.target > 0 /\ ~lastCall'.threw) =>
             SchemaDefinition(objects'[lastCall'.result].type,
                              lists'[objects'[lastCall'.result].validators],
                              lists'[objects'[lastCall'.result].transformers],
                              objects'[lastCall'.result].optional,
                              objects'[lastCall'.result].default)
               = Built(objects[lastCall'.target], lastCall'.method)]_vars

\* one builder branched into optional() and into custom(validator)
C16_Witness ==
    \E b, x, y \in 1..Len(objects) :
        /\ objects[b].shape = "builder" /\ ~objects[b].optional
        /\ objects[x].optional
        /\ objects[x].validators = objects[b].validators
        /\ ~objects[y].optional
        /\ Len(lists[objects[y].validators]) = Len(lists[objects[b].validators]) + 1
        /\ IsPrefix(lists[objects[b].validators], lists[objects[y].validators])
        /\ objects[y].transformers = objects[b].transformers

\* the items the last call's result holds beyond those of its target
Appended(field) == Len(lists[Result[field]]) - Len(lists[Target[field]])

(* C17: the definition returned by a refinement, custom or transform call    *)
(* has the validator list and the transformer list of the definition it was  *)
(* applied to as prefixes of its own, and holds exactly one validator or one *)
(* transformer more in total.                                                *)
C17_AppendsExactlyOne ==
    (MethodReturned /\ lastCall.method # "optional") =>
        /\ IsPrefix(lists[Target.validators], lists[Result.validators])
        /\ IsPrefix(lists[Target.transformers], lists[Result.transformers])
        /\ Appended("validators") + Appended("transformers") = 1

(* C18: every value returned by a factory, a refinement or a modifier has    *)
(* the methods optional, custom and transform, so that calling one of them   *)
(* on a returned value never fails.                                          *)
C18_ModifiersEverywhere ==
    /\ \A o \in 1..Len(objects) : CommonModifiers \subseteq Methods(objects[o])
    /\ ~(lastCall.threw /\ lastCall.method \in CommonModifiers)

-----------------------------------------------------------------------------
(* Builder objects as schema entries *)

\* the definition the builder of entry i holds
Held(i) == FieldDef(i).schema

\* what validateValue gives for the held definition of entry i
HeldResult(i) == validateValue(Held(i), FieldRaw(i), FieldKey(i))

(* C19: an entry returned by optional(), custom(v) or transform(t) is        *)
(* resolved as the definition it holds: on a present raw value the           *)
(* transformers and then the validators of that definition are called, the   *)
(* added one included, and the field resolves or fails as they decide; on an *)
(* absent raw value without default parse throws Missing unless the          *)
(* definition is optional, and then the field resolves to undefined.         *)
C19_ModifierEntryResolved ==
    \A i \in Fields : Evaluated(i) =>
        /\ CallsOf(FieldKey(i)) = Tagged(FieldKey(i), HeldResult(i).calls)
        /\ HeldResult(i).threw =>
                outcome = ParseThrew(Rethrown(FieldKey(i), HeldResult(i).error))
        /\ ~HeldResult(i).threw =>
                /\ HasResult(i)
                /\ results[i].value = HeldResult(i).value
        /\ (Absent(i) /\ Held(i).default = Undefined /\ ~Held(i).optional) =>
                outcome = ParseThrew(MissingEnvVariableError(FieldKey(i)))

-----------------------------------------------------------------------------
(* number().min(m) and number().max(n) *)

\* the definition entry i was refined to: the entry itself, or the one held by
\* the builder that max() returned
Refinement(i) == IF FieldDef(i).lacks = {} THEN FieldDef(i) ELSE Held(i)

IsMinField(i) == \E m \in BoundValues : Refinement(i) = numberMin(Undefined, Int2Num(m))
IsMaxField(i) == \E n \in BoundValues : Refinement(i) = numberMax(Undefined, Int2Num(n))

\* the bound given to min or max
BoundOf(i) == Refinement(i).validators[2].arg

WithinBound(i, v) ==
    IF IsMinField(i) THEN ~NumLt(v, BoundOf(i)) ELSE ~NumLt(BoundOf(i), v)

BoundMessage(i) ==
    (IF IsMinField(i) THEN <<"Value must be greater than or equal to ">>
     ELSE <<"Value must be less than or equal to ">>) \o NumberToString(BoundOf(i))

(* C20: a number field declared with min(m), respectively max(n), and given  *)
(* a numeric raw string resolves, to the number v the string denotes,        *)
(* exactly when v >= m, respectively v <= n (the bound itself resolves);     *)
(* otherwise parse throws a ValidationError whose message states the bound.  *)
C20_BoundsInclusive ==
    \A i \in Fields :
        (/\ Evaluated(i) /\ (IsMinField(i) \/ IsMaxField(i))
         /\ ~Absent(i) /\ ~RawNumber(i).nan) =>
            /\ HasResult(i) <=> WithinBound(i, RawNumber(i))
            /\ HasResult(i) =>
                    results[i].value = RawNumber(i) /\ results[i].errors = <<>>
            /\ ~HasResult(i) =>
                    /\ outcome.kind = "threw"
                    /\ outcome.error.name = "ValidationError"
                    /\ Contains(outcome.error.message, BoundMessage(i))

-----------------------------------------------------------------------------
(* Unexpected errors *)

\* the validators of field i are reached and one of them throws
ValidatorThrows(i) ==
    /\ StartValue(i) # Undefined
    /\ ~TransformThrows(i)
    /\ \E j \in 1..Len(FieldDef(i).validators) :
            ApplyValidator(FieldDef(i).validators[j], FinalValue(i)).threw

\* the error thrown by the first throwing validator of field i
ThrownByValidator(i) ==
    LET First(j) == ApplyValidator(FieldDef(i).validators[j], FinalValue(i)).error
    IN First(CHOOSE j \in 1..Len(FieldDef(i).validators) :
                /\ ApplyValidator(FieldDef(i).validators[j], FinalValue(i)).threw
                /\ \A k \in 1..(j - 1) :
                        ~ApplyValidator(FieldDef(i).validators[k], FinalValue(i)).threw)

(* C21: when a validator of a field throws (an error that is neither         *)
(* Missing, Transformation nor Validation), parse ends by throwing an error  *)
(* whose message holds the name of the field and the message of the error    *)
(* thrown; the field gets no result and parse returns no object.             *)
C21_UnexpectedErrorWrapped ==
    \A i \in Fields : (Evaluated(i) /\ ValidatorThrows(i)) =>
        /\ pc = "done" /\ outcome.kind = "threw"
        /\ ~IsCustomError(outcome.error)
        /\ Contains(outcome.error.message, <<FieldKey(i)>>)
        /\ Contains(outcome.error.message, ThrownByValidator(i).message)
        /\ ~HasResult(i)

\* parse ended on a second field whose custom validator threw
C21_Witness ==
    /\ pc = "done" /\ idx = 2 /\ Evaluated(2) /\ ValidatorThrows(2)
    /\ outcome.error.name = "SchemaError"

-----------------------------------------------------------------------------
(* envGuard *)

\* the variable of entry i is not set in process.env
Unset(i) == FieldKey(i) \notin DOMAIN env

Configured(i) == FieldDef(i).defaultValue # Undefined

(* C22: for a declared variable that is not set in the environment, envGuard *)
(* resolves it to its defaultValue when one is configured, and throws        *)
(* MissingEnvVariableError when none is.                                     *)
C22_DefaultOrMissing ==
    \A i \in Fields : (Evaluated(i) /\ Unset(i)) =>
        IF Configured(i)
        THEN HasResult(i) /\ results[i].value = FieldDef(i).defaultValue
        ELSE /\ outcome.kind = "threw"
             /\ outcome.error.name = "MissingEnvVariableError"

\* the variable of entry i is set, to a string that is not a port number
SetToNonPort(i) == ~Unset(i) /\ ~IsPort(ParseInt(env[FieldKey(i)]))

(* C23: a number variable set in the environment to a string that is not a  *)
(* number ("abc") or is outside 1 to 65535 ("70000") makes envGuard throw    *)
(* InvalidEnvVariableError, with or without a configured defaultValue: the   *)
(* value set in the environment takes precedence over the default.           *)
C23_SetValueValidated ==
    \A i \in Fields :
        (Evaluated(i) /\ FieldDef(i).type = "number" /\ SetToNonPort(i)) =>
            /\ outcome.kind = "threw"
            /\ outcome.error.name = "InvalidEnvVariableError"

-----------------------------------------------------------------------------
(* array().items(itemSchema) *)

IsItemsField(i) ==
    /\ FieldDef(i).type = "array" /\ Len(FieldDef(i).validators) = 2
    /\ FieldDef(i).validators[2].kind = "items"

\* the validators of the item schema of field i, and the elements they run on
ItemSchemaValidators(i) == ItemValidators(FieldDef(i).validators[2])
Elements(i) == FinalValue(i).items

\* the k-th (element, validator) pair, elements first: every validator on the
\* first element, then every validator on the second, ...
PairElement(i, k) == ((k - 1) \div Len(ItemSchemaValidators(i))) + 1
PairValidator(i, k) == ((k - 1) % Len(ItemSchemaValidators(i))) + 1

ItemCheck(i, k) ==
    ApplyValidator(ItemSchemaValidators(i)[PairValidator(i, k)],
                   Str(Elements(i)[PairElement(i, k)]))

\* the pairs that report a non-empty message or throw
Deciding(i) ==
    {k \in 1..(Len(Elements(i)) * Len(ItemSchemaValidators(i))) :
        ItemCheck(i, k).threw \/ Truthy(ItemCheck(i, k).res)}

(* C24: the items validator of an array field consults the validators of     *)
(* the item schema element by element and, within an element, in validator   *)
(* order; the first non-empty message is the one message reported and        *)
(* nothing after it is consulted (a later validator that would throw does    *)
(* not); when no element draws a message the field resolves to the array.    *)
C24_ItemsFirstMessage ==
    \A i \in Fields : (Evaluated(i) /\ IsItemsField(i) /\ ~Absent(i)) =>
        LET Settled(ks) ==
                IF ks = {}
                THEN /\ HasResult(i)
                     /\ results[i].value = FinalValue(i)
                     /\ results[i].errors = <<>>
                ELSE LET First(r) ==
                            outcome = ParseThrew(
                                IF r.threw THEN Rethrown(FieldKey(i), r.error)
                                ELSE ValidationError(FieldKey(i), r.res.msg))
                     IN First(ItemCheck(i, CHOOSE k \in ks : \A l \in ks : k <= l))
        IN Settled(Deciding(i))

\* parse ended on "0,a" under items(number().min(1)): the second validator on
\* the first element reports before the first validator reaches the second
C24_Witness ==
    /\ pc = "done" /\ IsItemsField(1)
    /\ FieldDef(1).validators[2].arg = Str(<<"number().min(1)">>)
    /\ FieldRaw(1) = Str(<<"0", ",", "a">>)
    /\ outcome.error.name = "ValidationError"
    /\ Contains(outcome.error.message, <<"Value must be greater than or equal to ">>)

-----------------------------------------------------------------------------
(* object(schema) and strict() *)

IsObjectField(i) == FieldDef(i).type = "object"
IsStrict(i) == Len(FieldDef(i).validators) = 2

IsNonNullObject(v) == TypeOf(v) = "object" /\ v # Null

\* the keys of v that are not field names of the nested schema
ExtraKeys(v) ==
    IF v = Null THEN <<>>
    ELSE SelectSeq(ObjectKeys(v),
                   LAMBDA key : \A k \in 1..Len(NestedKeys) : NestedKeys[k] # key)

\* the messages the claim expects for value v of field i
ObjectMessages(i, v) ==
    (IF IsNonNullObject(v) THEN <<>> ELSE <<<<"Expected object, got ", TypeOf(v)>>>>)
    \o (IF IsStrict(i) /\ ExtraKeys(v) # <<>>
        THEN <<<<"Unexpected keys: ">> \o Join(ExtraKeys(v), <<", ">>)>>
        ELSE <<>>)

(* C25: an object field rejects, with the base validator's message, every    *)
(* value that is not a non-null object; after strict() a value is rejected   *)
(* in addition exactly when it has a key that is not a field name of the     *)
(* nested schema, with a message listing exactly those keys; a value that    *)
(* draws neither message resolves.                                           *)
C25_ObjectAndStrict ==
    \A i \in Fields :
        (Evaluated(i) /\ IsObjectField(i) /\ StartValue(i) # Undefined) =>
            LET Settled(messages) ==
                    IF messages = <<>>
                    THEN HasResult(i) /\ results[i].value = StartValue(i)
                    ELSE outcome = ParseThrew(ValidationError(FieldKey(i),
                                                  Join(messages, <<", ">>)))
            IN Settled(ObjectMessages(i, StartValue(i)))

-----------------------------------------------------------------------------
(* number(): the base transformer *)

\* the base-10 reading of a string: an optional sign and a decimal literal,
\* surrounding white space allowed; NaN stands for "no base-10 reading"
Base10(cs) ==
    LET Reading(t) ==
            IF t = <<>> THEN NaN
            ELSE IF t[1] = "-" THEN Negate(DecimalLiteral(Tail(t)))
            ELSE IF t[1] = "+" THEN DecimalLiteral(Tail(t))
            ELSE DecimalLiteral(t)
    IN Reading(Trim(cs))

IsPlainNumberField(i) == FieldDef(i) = number(Undefined)

(* C26: for a number field and a present raw string, the resolved number is  *)
(* the base-10 reading of the string, and a string with no base-10 reading   *)
(* (the empty string, white space only, a hexadecimal form) does not resolve *)
(* but is rejected by the base validator as NaN.                             *)
C26_Base10Parse ==
    \A i \in Fields :
        (Evaluated(i) /\ IsPlainNumberField(i) /\ ~Absent(i)) =>
            LET Settled(reading) ==
                    IF reading.nan
                    THEN /\ ~HasResult(i)
                         /\ outcome.kind = "threw"
                         /\ outcome.error.name = "ValidationError"
                         /\ Contains(outcome.error.message,
                                     <<"Expected number, but got ">>)
                    ELSE /\ HasResult(i)
                         /\ results[i].value = reading
            IN Settled(Base10(FieldRaw(i).s))

-----------------------------------------------------------------------------
(* Reuse of a schema map *)

\* the runs that have ended, the one just finished included
FinishedRuns ==
    {runs[r] : r \in 1..Len(runs)}
        \cup (IF pc = "done" THEN {Run(env, outcome)} ELSE {})

RunsAgree ==
    \A a \in FinishedRuns, b \in FinishedRuns : a.env = b.env => a.outcome = b.outcome

-----------------------------------------------------------------------------
(* The empty string as a raw value *)

SetToEmpty(i) == FieldRaw(i) = RawEmpty

\* the first function validateValue calls for field i
FirstCall(i) == CallsOf(FieldKey(i))[1]

(* C28: an empty-string raw value counts as present for every field type:   *)
(* it never raises Missing, the default is never put in its place, and it   *)
(* goes through the field's transformers and validators like any other      *)
(* string (the first of them is called on the empty string itself).         *)
C28_EmptyStringPresent ==
    \A i \in Fields :
        (Evaluated(i) /\ SetToEmpty(i)) =>
            /\ outcome.error.name # "MissingEnvVariableError"
            /\ CallsOf(FieldKey(i)) # <<>>
            /\ FirstCall(i).arg = RawEmpty
            /\ FirstCall(i).i = 1
            /\ FirstCall(i).op =
                    (IF FieldDef(i).transformers # <<>> THEN "transformer" ELSE "validator")
            /\ (FieldDef(i).type = "string" /\ HasResult(i)) => results[i].value = RawEmpty

\* a number field with default 443 set to the empty string has resolved
C28_Witness ==
    /\ pc = "done" /\ FieldDef(1) = number(Int2Num(443)) /\ SetToEmpty(1)
    /\ HasResult(1) /\ results[1].value = Int2Num(0)

-----------------------------------------------------------------------------
(* Enrichment and the declared fields *)

ValidateEnvReturned == validated.kind = "returned"

(* C29: enrichment leaves every declared field unchanged: whenever           *)
(* validateEnv returns, each declared field (one named isDev, isProd,        *)
(* isDevelopment, isProduction, isTest, isStaging, isLocal or enviroment     *)
(* included) has in the returned object the value parse resolved for it.     *)
C29_EnrichmentKeepsFields ==
    ValidateEnvReturned =>
        \A i \in Fields : validated.value[FieldKey(i)] = results[i].value

-----------------------------------------------------------------------------
(* The prefix option *)

Prefixed == options.prefix # ""

InSource(key) == \E e \in 1..Len(options.envVars) : options.envVars[e].key = key

SourceValue(key) ==
    options.envVars[CHOOSE e \in 1..Len(options.envVars) :
                        options.envVars[e].key = key].value

\* the same raw source with its keys in the opposite order
Reversed(entries) == [e \in 1..Len(entries) |-> entries[Len(entries) + 1 - e]]

\* the raw value parse reads for a key in a raw mapping
RawFor(mapping, key) == Lookup(mapping, key)

(* C30: with a prefix option, the raw value validateEnv resolves for a       *)
(* declared field K does not depend on the order of the keys in the raw      *)
(* source (with K and prefix+K both there, the same one of the two is taken  *)
(* whichever comes first), and with only prefix+K there that key's value is  *)
(* used.                                                                     *)
C30_PrefixOrderIndependent ==
    (Prefixed /\ pc # "idle") =>
        \A i \in Fields :
            /\ RawFor(env, FieldKey(i))
                   = RawFor(ProcessedEnvVars(Reversed(options.envVars),
                                             options.prefix, EmptyObject),
                            FieldKey(i))
            /\ (InSource(options.prefix \o FieldKey(i)) /\ ~InSource(FieldKey(i)))
                   => RawFor(env, FieldKey(i)) = SourceValue(options.prefix \o FieldKey(i))

====
